---------------------------- MODULE Spec2Model ----------------------------
(***************************************************************************)
(* Pixel Poker Duel, frontend: the mock hand engine (mock/mockData), the   *)
(* useSession hook, the ActionControls component, the App's button gating  *)
(* and the PokerSessionSocket request/response correlation.                *)
(*                                                                         *)
(* Conventions.                                                            *)
(*  - An optional JS value is <<>> (undefined) or <<v>>.                   *)
(*  - A JS number that comes from outside (a typed input value, the        *)
(*    amount argument of submitAction / applyMockAction) is an integer     *)
(*    count of HALF chips, so that Math.floor is not the identity.         *)
(*    Stacks, pots, costs and legal bounds are whole chips.                *)
(*  - A handId "hand-007" is the digit sequence <<0, 0, 7>>.               *)
(***************************************************************************)
EXTENDS Integers, Sequences, FiniteSets, TLC

VARIABLES
    mode,        \* useSession: "api" | "mock"
    session,     \* useSession: SessionState, or NoSession
    loading,     \* useSession: loading flag
    submitting,  \* useSession: submitting flag
    error,       \* useSession: error message (a tuple of its parts), or NoError
    socketRef,   \* useSession: socketRef.current is the socket (TRUE) or null (FALSE)
    loadPc,      \* useSession: where the initial load() stands
    mounted,     \* useSession: the effect's cleanup has not run (cancelled = false)
    hookOp,      \* useSession: the submitAction / nextHand call that is awaiting, or NoHookOp
    amount,      \* ActionControls: the amount state (whole chips)
    sock,        \* PokerSessionSocket: readyState, readyPromise, pending map, requestCounter
    calls,       \* PokerSessionSocket: the promise of every send() call, in call order
    timers,      \* window: the live timeouts (by the call that set them)
    c2s,         \* network: socket payloads sent and not yet answered by the server
    http,        \* network: the mutating HTTP request in flight, or NoHttp
    applied,     \* server: per user operation, how many times the engine applied it
    streetLead,  \* history: chips the human has put in on this street minus the opponent's
    nApplied,    \* history: number of engine operations run so far (bounded)
    last,        \* history: the last engine operation, its inputs and the session before it
    closedPending, \* history: the calls that were pending when the socket was closed
    policy,      \* server: the Opponent Policy Service and the request it is serving
    handSummaries,  \* useSession: the hand summaries, newest first (as written in mock mode)
    replays,        \* useSession: the stored replays, newest first (written in mock mode only)
    selectedReplay  \* useSession: the replay shown by ReplayPanel, or NoReplay

hookVars == <<mode, session, loading, submitting, error, socketRef, loadPc, mounted, hookOp>>

sockVars == <<sock, calls, timers, c2s>>

netVars == <<http, applied>>

engineHist == <<streetLead, nApplied, last>>

sockHist == <<closedPending>>

histVars == <<handSummaries, replays, selectedReplay>>

clientVars == <<hookVars, amount, sockVars, netVars, engineHist, sockHist, histVars>>

vars == <<clientVars, policy>>

-----------------------------------------------------------------------------
(* Bounds of the model *)

\* operations (actions applied, hands started) in one behaviour
MaxOps == 3

\* hands started after the first one
MaxHands == 2

\* send() calls on one socket; operations one page submits to the server
MaxCalls == 2

\* the largest configured retry count of the policy service
MaxRetries == 1

\* the largest configured number of policy calls per request
MaxPolicyCalls == 2

\* opponent decisions the session manager asks for within one request
MaxDecisions == 3


-----------------------------------------------------------------------------
(* JS values *)

Null == "null"

\* the null of a state that otherwise holds a record
NoSession == [status |-> "none"]

NoHookOp == [op |-> "none"]

NoHttp == [op |-> "none"]

\* the policy service where no server is part of the model
NoPolicy == [pc |-> "none"]

\* selectedReplay = null
NoReplay == [seed |-> "none"]

\* the hand history of a hook that has stored nothing yet
NoHistory == handSummaries = <<>> /\ replays = <<>> /\ selectedReplay = NoReplay

\* the null error message
NoError == <<>>

Undefined == <<>>

Some(v) == <<v>>

\* the integer n as a JS number (in half chips)
Num(n) == 2 * n

Min(a, b) == IF a <= b THEN a ELSE b

Max(a, b) == IF a >= b THEN a ELSE b

\* Math.floor of the number x (half chips), in whole chips
Floor(x) == x \div 2

ActionTypes == {"fold", "check", "call", "bet", "raise", "all_in"}

\* amount arguments tried on direct calls: undefined, -1.5, 2.5, 10.5, 30, 500
DirectAmounts == {Undefined, Some(-4), Some(-3), Some(5), Some(21), Some(60), Some(1000)}

-----------------------------------------------------------------------------
(* mock/mockData *)

LegalAction(t, lo, hi, owed) ==
    [type |-> t, minAmount |-> lo, maxAmount |-> hi, toCall |-> owed]

Event(st, who, what, amt, p, b, hs, os, vis) ==
    [street |-> st, actor |-> who, action |-> what, amount |-> amt, pot |-> p,
     board |-> b, stacks |-> [human |-> hs, opponent |-> os],
     holeCardVisibility |-> [human |-> TRUE, opponent |-> vis]]

FlopBoard == <<"Qs", "7d", "2c">>

ShowdownBoard == <<"Qs", "7d", "2c", "9s", "Ac">>

buildInitialMockState ==
    [handId |-> <<0, 0, 1>>,
     street |-> "flop",
     smallBlind |-> 1,
     bigBlind |-> 2,
     pot |-> 13,
     board |-> FlopBoard,
     players |->
        [human |-> [stack |-> 193, isButton |-> TRUE,
                    holeCards |-> <<"Ah", "Jh">>, cardsVisible |-> TRUE],
         opponent |-> [stack |-> 194, isButton |-> FALSE,
                       holeCards |-> <<"Kd", "9c">>, cardsVisible |-> FALSE]],
     legalActions |->
        << LegalAction("fold", Undefined, Undefined, Undefined),
           LegalAction("check", Undefined, Undefined, Undefined),
           LegalAction("bet", Some(2), Some(193), Undefined),
           LegalAction("all_in", Some(193), Some(193), Undefined) >>,
     actionFeed |->
        << Event("preflop", "system", "Hand started. Blinds posted 1/2.", Undefined,
                 3, <<>>, 199, 198, FALSE),
           Event("preflop", "human", "raise", Some(6), 9, <<>>, 193, 198, FALSE),
           Event("preflop", "opponent", "call", Some(4), 13, <<>>, 193, 194, FALSE),
           Event("flop", "system", "Flop dealt.", Undefined, 13, FlopBoard, 193, 194, FALSE) >>,
     status |-> "in_progress"]

actionCost(actionType, amt) ==
    IF actionType \in {"fold", "check"}
    THEN 0
    ELSE Max(0, Floor(IF amt = Undefined THEN 0 ELSE amt[1]))

pickMockOpponentAction(state) ==
    IF state.status # "in_progress" THEN [type |-> "check", amount |-> Undefined]
    ELSE IF state.pot <= 20 THEN [type |-> "check", amount |-> Undefined]
    ELSE IF state.pot <= 40 THEN [type |-> "call", amount |-> Some(Num(4))]
    ELSE [type |-> "all_in", amount |-> Some(Num(Min(36, state.players.opponent.stack)))]

\* a variant of applyHumanCost that takes the uncapped cost from the stack
applyHumanCost_StackUncapped(next, actionType, amt) ==
    LET humanCost == actionCost(actionType, amt)
        stack == next.players.human.stack - humanCost
        pot == next.pot + humanCost
    IN [next EXCEPT
          !.players.human.stack = stack,
          !.pot = pot,
          !.actionFeed = Append(@,
              Event(next.street, "human", actionType,
                    IF humanCost > 0 THEN Some(humanCost) ELSE Undefined,
                    pot, next.board, stack, next.players.opponent.stack,
                    next.players.opponent.cardsVisible))]

\* a variant of applyHumanCost that adds the uncapped cost to the pot
applyHumanCost_PotUncapped(next, actionType, amt) ==
    LET humanCost == Min(actionCost(actionType, amt), next.players.human.stack)
        stack == next.players.human.stack - humanCost
        pot == next.pot + actionCost(actionType, amt)
    IN [next EXCEPT
          !.players.human.stack = stack,
          !.pot = pot,
          !.actionFeed = Append(@,
              Event(next.street, "human", actionType,
                    IF humanCost > 0 THEN Some(humanCost) ELSE Undefined,
                    pot, next.board, stack, next.players.opponent.stack,
                    next.players.opponent.cardsVisible))]

\* applyMockAction, the human's part: the cost leaves the stack, enters the pot, and is logged
applyHumanCost(next, actionType, amt) ==
    LET humanCost == Min(actionCost(actionType, amt), next.players.human.stack)
        stack == next.players.human.stack - humanCost
        pot == next.pot + humanCost
    IN [next EXCEPT
          !.players.human.stack = stack,
          !.pot = pot,
          !.actionFeed = Append(@,
              Event(next.street, "human", actionType,
                    IF humanCost > 0 THEN Some(humanCost) ELSE Undefined,
                    pot, next.board, stack, next.players.opponent.stack,
                    next.players.opponent.cardsVisible))]

\* applyMockAction, the fold branch
applyFold(next) ==
    [next EXCEPT
       !.status = "hand_complete",
       !.players.opponent.cardsVisible = TRUE,
       !.legalActions = <<>>,
       !.actionFeed = Append(@,
           Event(next.street, "system", "Opponent wins after fold.", Undefined,
                 next.pot, next.board, next.players.human.stack,
                 next.players.opponent.stack, TRUE))]

\* applyMockAction, the opponent's reply
applyBotAction(next) ==
    LET bot == pickMockOpponentAction(next)
        botCost == Min(actionCost(bot.type, bot.amount), next.players.opponent.stack)
        stack == next.players.opponent.stack - botCost
        pot == next.pot + botCost
    IN [next EXCEPT
          !.players.opponent.stack = stack,
          !.pot = pot,
          !.actionFeed = Append(@,
              Event(next.street, "opponent", bot.type,
                    IF botCost > 0 THEN Some(botCost) ELSE Undefined,
                    pot, next.board, next.players.human.stack, stack, FALSE))]

\* a variant of applyShowdown that deals the five board cards in another order
applyShowdown_Redealt(next) ==
    [next EXCEPT
       !.status = "hand_complete",
       !.street = "showdown",
       !.board = <<"9s", "Ac", "Qs", "7d", "2c">>,
       !.players.opponent.cardsVisible = TRUE,
       !.legalActions = <<>>,
       !.actionFeed = Append(@,
           Event("showdown", "system", "Showdown reached.", Undefined,
                 next.pot, ShowdownBoard, next.players.human.stack,
                 next.players.opponent.stack, TRUE))]

\* a variant of applyShowdown that puts the hand back on the first street
applyShowdown_BackToPreflop(next) ==
    [next EXCEPT
       !.status = "hand_complete",
       !.street = "preflop",
       !.board = ShowdownBoard,
       !.players.opponent.cardsVisible = TRUE,
       !.legalActions = <<>>,
       !.actionFeed = Append(@,
           Event("showdown", "system", "Showdown reached.", Undefined,
                 next.pot, ShowdownBoard, next.players.human.stack,
                 next.players.opponent.stack, TRUE))]

\* applyMockAction, the showdown after an all-in
applyShowdown(next) ==
    [next EXCEPT
       !.status = "hand_complete",
       !.street = "showdown",
       !.board = ShowdownBoard,
       !.players.opponent.cardsVisible = TRUE,
       !.legalActions = <<>>,
       !.actionFeed = Append(@,
           Event("showdown", "system", "Showdown reached.", Undefined,
                 next.pot, ShowdownBoard, next.players.human.stack,
                 next.players.opponent.stack, TRUE))]

\* a variant of applyMockAction without the early return for a hand that is over
applyMockAction_NoStatusCheck(state, actionType, amt) ==
    LET afterHuman == applyHumanCost(state, actionType, amt)
    IN IF actionType = "fold"
       THEN applyFold(afterHuman)
       ELSE LET bot == pickMockOpponentAction(afterHuman)
                afterBot == applyBotAction(afterHuman)
            IN IF actionType = "all_in" \/ bot.type = "all_in"
               THEN applyShowdown(afterBot)
               ELSE afterBot

\* a variant of applyMockAction in which the opponent replies to a fold as well
applyMockAction_ReplyAfterFold(state, actionType, amt) ==
    IF state.status # "in_progress"
    THEN state
    ELSE LET afterHuman == applyHumanCost(state, actionType, amt)
             afterBot == applyBotAction(afterHuman)
         IN IF actionType = "fold"
            THEN applyFold(afterBot)
            ELSE IF actionType = "all_in" \/ pickMockOpponentAction(afterHuman).type = "all_in"
                 THEN applyShowdown(afterBot)
                 ELSE afterBot

\* applyMockAction: nothing for a hand that is over; else the human's event, then the
\* fold's system event or the opponent's reply and, after an all-in, the showdown
applyMockAction(state, actionType, amt) ==
    IF state.status # "in_progress"
    THEN state
    ELSE LET afterHuman == applyHumanCost(state, actionType, amt)
         IN IF actionType = "fold"
            THEN applyFold(afterHuman)
            ELSE LET bot == pickMockOpponentAction(afterHuman)
                     afterBot == applyBotAction(afterHuman)
                 IN IF actionType = "all_in" \/ bot.type = "all_in"
                    THEN applyShowdown(afterBot)
                    ELSE afterBot

\* useSession.submitAction, mock branch: the summary stored for the hand of `updated`
\* (startedAt is a clock reading and is left out)
mockSummary(updated) ==
    [handId |-> updated.handId,
     winner |-> IF updated.status = "hand_complete"
                THEN IF updated.players.human.stack >= updated.players.opponent.stack
                     THEN "human"
                     ELSE "opponent"
                ELSE Null,
     finalPot |-> updated.pot]

\* a variant of jsonCopy that hands back the object it was given
jsonCopy_SameObject(state) == [object |-> "argument", content |-> state]

\* JSON.parse(JSON.stringify(state)): another object with the same content (a session
\* holds strings, numbers, booleans, arrays and objects only, and a field that is absent
\* reads like one that is undefined)
jsonCopy(state) == [object |-> "copy", content |-> state]

\* the object passed to applyMockAction as its caller sees it after the call: the
\* function writes to `next` only
argumentAfterApply(state, actionType, amt) ==
    IF jsonCopy(state).object = "argument"
    THEN applyMockAction(state, actionType, amt)
    ELSE state

\* Number.parseInt of the digits of a handId
ParseInt(digits) ==
    LET RECURSIVE Value(_)
        Value(k) == IF k = 0 THEN 0 ELSE 10 * Value(k - 1) + digits[k]
    IN Value(Len(digits))

\* n.toString(): the decimal digits of n >= 0
ToDigits(n) ==
    LET RECURSIVE Digits(_)
        Digits(m) == IF m < 10 THEN <<m>> ELSE Append(Digits(m \div 10), m % 10)
    IN Digits(n)

\* String.padStart(3, "0")
PadStart3(digits) ==
    IF Len(digits) >= 3 THEN digits
    ELSE [i \in 1..3 |-> IF i <= 3 - Len(digits) THEN 0 ELSE digits[i - (3 - Len(digits))]]

\* a variant of createNextMockHand that leaves the button where it was
createNextMockHand_ButtonStays(state) ==
    LET handNumber == ParseInt(state.handId) + 1
        humanStack == Max(80, state.players.human.stack)
        opponentStack == Max(80, state.players.opponent.stack)
    IN [handId |-> PadStart3(ToDigits(handNumber)),
        street |-> "preflop",
        smallBlind |-> state.smallBlind,
        bigBlind |-> state.bigBlind,
        pot |-> 3,
        board |-> <<>>,
        players |->
           [human |-> [stack |-> humanStack,
                       isButton |-> state.players.human.isButton,
                       holeCards |-> <<"9h", "9d">>, cardsVisible |-> TRUE],
            opponent |-> [stack |-> opponentStack,
                          isButton |-> state.players.opponent.isButton,
                          holeCards |-> <<"As", "Qc">>, cardsVisible |-> FALSE]],
        legalActions |->
           << LegalAction("fold", Undefined, Undefined, Undefined),
              LegalAction("call", Undefined, Undefined, Some(1)),
              LegalAction("raise", Some(4), Some(humanStack), Undefined) >>,
        actionFeed |->
           << Event("preflop", "system", "New hand started. Blinds posted 1/2.", Undefined,
                    3, <<>>,
                    humanStack - (IF state.players.human.isButton THEN 2 ELSE 1),
                    opponentStack - (IF state.players.opponent.isButton THEN 2 ELSE 1),
                    FALSE) >>,
        status |-> "in_progress"]

createNextMockHand(state) ==
    LET handNumber == ParseInt(state.handId) + 1
        humanStack == Max(80, state.players.human.stack)
        opponentStack == Max(80, state.players.opponent.stack)
    IN [handId |-> PadStart3(ToDigits(handNumber)),
        street |-> "preflop",
        smallBlind |-> state.smallBlind,
        bigBlind |-> state.bigBlind,
        pot |-> 3,
        board |-> <<>>,
        players |->
           [human |-> [stack |-> humanStack,
                       isButton |-> ~state.players.human.isButton,
                       holeCards |-> <<"9h", "9d">>, cardsVisible |-> TRUE],
            opponent |-> [stack |-> opponentStack,
                          isButton |-> ~state.players.opponent.isButton,
                          holeCards |-> <<"As", "Qc">>, cardsVisible |-> FALSE]],
        legalActions |->
           << LegalAction("fold", Undefined, Undefined, Undefined),
              LegalAction("call", Undefined, Undefined, Some(1)),
              LegalAction("raise", Some(4), Some(humanStack), Undefined) >>,
        actionFeed |->
           << Event("preflop", "system", "New hand started. Blinds posted 1/2.", Undefined,
                    3, <<>>,
                    humanStack - (IF state.players.human.isButton THEN 2 ELSE 1),
                    opponentStack - (IF state.players.opponent.isButton THEN 2 ELSE 1),
                    FALSE) >>,
        status |-> "in_progress"]

\* buildMockHandSummaries(currentHandId) (startedAt is a clock reading and is left out)
buildMockHandSummaries(currentHandId) ==
    << [handId |-> currentHandId, winner |-> Null, finalPot |-> 13],
       [handId |-> <<0, 0, 0>>, winner |-> "opponent", finalPot |-> 36] >>

\* a HandReplay of the hand of `state` with the state's feed as events
HandReplay(state, seed) ==
    [handId |-> state.handId,
     seed |-> seed,
     blinds |-> [smallBlind |-> state.smallBlind, bigBlind |-> state.bigBlind],
     events |-> state.actionFeed]

\* buildMockReplays(currentState): the current hand, then the canned previous hand
buildMockReplays(currentState) ==
    << HandReplay(currentState, "mock-seed-current"),
       [handId |-> <<0, 0, 0>>,
        seed |-> "mock-seed-previous",
        blinds |-> [smallBlind |-> 1, bigBlind |-> 2],
        events |->
           << Event("preflop", "human", "raise", Some(8), 11, <<>>, 192, 198, FALSE),
              Event("preflop", "opponent", "call", Some(6), 17, <<>>, 192, 192, FALSE),
              Event("flop", "system", "Flop dealt.", Undefined, 17,
                    <<"Tc", "7h", "4h">>, 192, 192, FALSE),
              Event("showdown", "system", "Opponent wins at showdown.", Undefined, 36,
                    <<"Tc", "7h", "4h", "2s", "Qd">>, 182, 218, TRUE) >>] >>

\* a variant of replaysAfterAction that keeps the entry it replaces
replaysAfterAction_NoFilter(prev, updated) ==
    <<HandReplay(updated, "mock-live-seed")>> \o prev

\* useSession.submitAction, mock branch: setReplays(prev => [updatedReplay, ...withoutCurrent])
replaysAfterAction(prev, updated) ==
    LET withoutCurrent == SelectSeq(prev, LAMBDA item : item.handId # updated.handId)
    IN <<HandReplay(updated, "mock-live-seed")>> \o withoutCurrent

\* useSession.submitAction, mock branch: setHandSummaries(prev => [summary, ...rest])
summariesAfterAction(prev, updated) ==
    LET withoutCurrent == SelectSeq(prev, LAMBDA item : item.handId # updated.handId)
    IN <<mockSummary(updated)>> \o withoutCurrent

\* replays.find(item => item.handId === handId) ?? null
findReplay(stored, handId) ==
    LET hits == {i \in DOMAIN stored : stored[i].handId = handId}
    IN IF hits = {} THEN NoReplay
       ELSE stored[CHOOSE i \in hits : \A j \in hits : i <= j]

-----------------------------------------------------------------------------
(* components/ActionControls and App *)

\* new Map(legalActions.map(item => [item.type, item])).get(t): the last entry of type t
legalByType(legalActions, t) ==
    LET hits == {i \in DOMAIN legalActions : legalActions[i].type = t}
    IN IF hits = {} THEN Undefined
       ELSE Some(legalActions[CHOOSE i \in hits : \A j \in hits : j <= i])

betLike(legalActions) ==
    IF legalByType(legalActions, "raise") # Undefined THEN legalByType(legalActions, "raise")
    ELSE IF legalByType(legalActions, "bet") # Undefined THEN legalByType(legalActions, "bet")
    ELSE legalByType(legalActions, "all_in")

\* min = betLike?.minAmount ?? 0
minAmount(legalActions) ==
    LET b == betLike(legalActions)
    IN IF b = Undefined \/ b[1].minAmount = Undefined THEN 0 ELSE b[1].minAmount[1]

\* max = betLike?.maxAmount ?? min
maxAmount(legalActions) ==
    LET b == betLike(legalActions)
    IN IF b = Undefined \/ b[1].maxAmount = Undefined
       THEN minAmount(legalActions) ELSE b[1].maxAmount[1]

canSize(legalActions) == betLike(legalActions) # Undefined

\* a variant of clamp without the lower bound
clamp_NoMin(legalActions, value) ==
    IF ~canSize(legalActions) THEN 0
    ELSE Min(maxAmount(legalActions), Floor(value))

\* clamp of a number (half chips), in whole chips
clamp(legalActions, value) ==
    IF ~canSize(legalActions) THEN 0
    ELSE Max(minAmount(legalActions), Min(maxAmount(legalActions), Floor(value)))

\* the amount onAction passes to onSubmit for the amount state amt
onActionAmount(legalActions, type, amt) ==
    IF type \in {"bet", "raise", "all_in"}
    THEN Some(Num(clamp(legalActions, Num(amt))))
    ELSE Undefined

\* values typed into the amount input or dragged on the slider: -1.5, 3.5, 500
TypedValues == {-3, 7, 1000}

showNextHand(s) == s.status \in {"hand_complete", "session_complete"}

\* a variant of the gating that looks at the hand's status only
ActionControlsDisabled_StatusOnly(sub, s) == showNextHand(s)

\* the disabled prop of ActionControls
ActionControlsDisabled(sub, s) == sub \/ showNextHand(s)

\* the disabled attribute of the next-hand button
NextHandDisabled(sub) == sub

\* isDisabled of the button of a type
isDisabled(disabled, legalActions, type) ==
    disabled \/ legalByType(legalActions, type) = Undefined

\* a variant of onAction's guard that looks at the disabled prop only
onActionReturnsEarly_DisabledOnly(disabled, legalActions, type) == disabled

\* onAction returns before it calls onSubmit
onActionReturnsEarly(disabled, legalActions, type) ==
    disabled \/ legalByType(legalActions, type) = Undefined

\* App renders the table (and ActionControls in it)
TableRendered(load, s) == ~load /\ s.status # "none"

\* the dependencies of the amount effect: [betLike?.maxAmount, betLike?.minAmount]
effectDeps(legalActions) ==
    LET b == betLike(legalActions)
    IN IF b = Undefined THEN <<Undefined, Undefined>> ELSE <<b[1].maxAmount, b[1].minAmount>>

\* the amount state after a render: ActionControls is mounted anew when the table appears
\* or the handId (the key of its section) changes, and its effect resets the amount when
\* betLike's bounds change
amountAfter(load, s, loadNext, sNext, amt) ==
    IF ~TableRendered(loadNext, sNext) THEN 0
    ELSE IF \/ ~TableRendered(load, s)
            \/ s.handId # sNext.handId
            \/ effectDeps(s.legalActions) # effectDeps(sNext.legalActions)
    THEN minAmount(sNext.legalActions)
    ELSE amt

-----------------------------------------------------------------------------
(* api/client: PokerSessionSocket *)

\* the session a server hands out while a hand is on: the human may check or bet 2-3
ServerInProgress ==
    [buildInitialMockState EXCEPT
        !.legalActions = << LegalAction("check", Undefined, Undefined, Undefined),
                            LegalAction("bet", Some(2), Some(3), Undefined) >>]

\* the session snapshots a server answers with: in progress, hand complete, session complete
ServerSnapshots ==
    {[ServerInProgress EXCEPT !.status = st,
         !.legalActions = IF st = "in_progress" THEN @ ELSE <<>>] :
        st \in {"in_progress", "hand_complete", "session_complete"}}

\* the ActionResolution a server answers an action with
ServerResult(snap) ==
    [sessionState |-> snap, handComplete |-> snap.status # "in_progress"]

\* what a server answers an operation with: an ActionResolution or a SessionState
ServerBody(op, snap) == IF op = "action" THEN ServerResult(snap) ELSE snap

\* a message payload: its body and, for the history, the requestId of the message it
\* travels in
Payload(body, requestId) == [body |-> body, echo |-> requestId]

\* readyState: "connecting", "open", "closing" (close() was called or the connection
\* failed, the close event is still to come), "closed"; "none" before construction
NoSocket ==
    [readyState |-> "none", ready |-> "waiting", pending |-> {}, requestCounter |-> 0]

\* new PokerSessionSocket(url)
NewSocket ==
    [readyState |-> "connecting", ready |-> "waiting", pending |-> {}, requestCounter |-> 0]

isConnected(s) == s.readyState = "open"

\* the promise returned by a send() call, before send() has run past `await this.ready()`
NewCall(op, u, actionType, amt) ==
    [op |-> op, u |-> u, actionType |-> actionType, amount |-> amt,
     stage |-> "awaiting_ready", requestId |-> Undefined,
     outcome |-> "pending", status |-> -1, message |-> Undefined, value |-> Undefined,
     settles |-> 0]

\* resolve(value) on a call's promise: only the first settlement counts
Resolve(c, v) ==
    [c EXCEPT !.settles = @ + 1,
              !.outcome = IF c.outcome = "pending" THEN "resolved" ELSE @,
              !.value = IF c.outcome = "pending" THEN v ELSE @]

\* reject(new ApiError(message, status)) on a call's promise
Reject(c, text, st) ==
    [c EXCEPT !.settles = @ + 1,
              !.outcome = IF c.outcome = "pending" THEN "rejected" ELSE @,
              !.message = IF c.outcome = "pending" THEN Some(text) ELSE @,
              !.status = IF c.outcome = "pending" THEN st ELSE @]

\* Map.get: the entries stored under a key (none or one)
MapGet(m, key) == {e \in m : e.requestId = key}

\* Map.delete
MapDelete(m, key) == {e \in m : e.requestId # key}

\* Map.set
MapSet(m, key, promise, timeoutId) ==
    MapDelete(m, key) \cup {[requestId |-> key, promise |-> promise, timeoutId |-> timeoutId]}

\* the socket with its promises, timers and outgoing payloads
World == [sock |-> sock, calls |-> calls, timers |-> timers, c2s |-> c2s]

\* a variant of send whose request id is made of the time alone
send_TimeOnly(w, k, t) ==
    IF w.sock.ready = "rejected"
    THEN [w EXCEPT !.calls[k] =
                      [Reject(@, <<"WebSocket connection failed.">>, 0) EXCEPT !.stage = "failed"]]
    ELSE IF ~isConnected(w.sock)
    THEN [w EXCEPT !.calls[k] =
                      [Reject(@, <<"WebSocket not connected.">>, 0) EXCEPT !.stage = "failed"]]
    ELSE LET requestId == <<t, 0>>
         IN [w EXCEPT
               !.sock.requestCounter = @ + 1,
               !.sock.pending = MapSet(@, requestId, k, k),
               !.timers = @ \cup {k},
               !.calls[k] = [@ EXCEPT !.stage = "sent", !.requestId = Some(requestId)],
               !.c2s = @ \cup {[requestId |-> requestId, op |-> w.calls[k].op,
                                u |-> w.calls[k].u,
                                actionType |-> w.calls[k].actionType,
                                amount |-> w.calls[k].amount]}]

\* a variant of send without the isConnected() test
send_NoConnectedTest(w, k, t) ==
    IF w.sock.ready = "rejected"
    THEN [w EXCEPT !.calls[k] =
                      [Reject(@, <<"WebSocket connection failed.">>, 0) EXCEPT !.stage = "failed"]]
    ELSE LET requestId == <<t, w.sock.requestCounter>>
         IN [w EXCEPT
               !.sock.requestCounter = @ + 1,
               !.sock.pending = MapSet(@, requestId, k, k),
               !.timers = @ \cup {k},
               !.calls[k] = [@ EXCEPT !.stage = "sent", !.requestId = Some(requestId)],
               !.c2s = @ \cup {[requestId |-> requestId, op |-> w.calls[k].op,
                                u |-> w.calls[k].u,
                                actionType |-> w.calls[k].actionType,
                                amount |-> w.calls[k].amount]}]

\* send(), from `await this.ready()` on, for call k at time t
send(w, k, t) ==
    IF w.sock.ready = "rejected"
    THEN [w EXCEPT !.calls[k] =
                      [Reject(@, <<"WebSocket connection failed.">>, 0) EXCEPT !.stage = "failed"]]
    ELSE IF ~isConnected(w.sock)
    THEN [w EXCEPT !.calls[k] =
                      [Reject(@, <<"WebSocket not connected.">>, 0) EXCEPT !.stage = "failed"]]
    ELSE LET requestId == <<t, w.sock.requestCounter>>
         IN [w EXCEPT
               !.sock.requestCounter = @ + 1,
               !.sock.pending = MapSet(@, requestId, k, k),
               !.timers = @ \cup {k},
               !.calls[k] = [@ EXCEPT !.stage = "sent", !.requestId = Some(requestId)],
               !.c2s = @ \cup {[requestId |-> requestId, op |-> w.calls[k].op,
                                u |-> w.calls[k].u,
                                actionType |-> w.calls[k].actionType,
                                amount |-> w.calls[k].amount]}]

\* the send() calls suspended at `await this.ready()` continue, in call order
RECURSIVE ResumeFrom(_, _, _)
ResumeFrom(w, k, t) ==
    IF k > Len(w.calls) THEN w
    ELSE ResumeFrom(IF w.calls[k].stage = "awaiting_ready" THEN send(w, k, t) ELSE w,
                    k + 1, t)

\* a variant of timeoutCallback that deletes the entry and rejects nothing
timeoutCallback_DeleteOnly(w, k) ==
    [w EXCEPT
       !.timers = @ \ {k},
       !.sock.pending = MapDelete(@, w.calls[k].requestId[1])]

\* the timeout callback of call k
timeoutCallback(w, k) ==
    [w EXCEPT
       !.timers = @ \ {k},
       !.sock.pending = MapDelete(@, w.calls[k].requestId[1]),
       !.calls[k] = Reject(@, <<"WebSocket request timed out.">>, 504)]

\* a variant of rejectAllPending that leaves the timeouts running
rejectAllPending_KeepTimers(w, text) ==
    [w EXCEPT
       !.sock.pending = {},
       !.calls = [k \in DOMAIN w.calls |->
                    IF \E e \in w.sock.pending : e.promise = k
                    THEN Reject(w.calls[k], text, 0) ELSE w.calls[k]]]

\* rejectAllPending(error): every entry is deleted, its timeout cleared, its promise rejected
rejectAllPending(w, text) ==
    [w EXCEPT
       !.sock.pending = {},
       !.timers = @ \ {e.timeoutId : e \in w.sock.pending},
       !.calls = [k \in DOMAIN w.calls |->
                    IF \E e \in w.sock.pending : e.promise = k
                    THEN Reject(w.calls[k], text, 0) ELSE w.calls[k]]]

\* close()
close(w) ==
    LET r == rejectAllPending(w, <<"WebSocket closed.">>)
    IN [r EXCEPT !.sock.readyState =
                     IF @ \in {"connecting", "open"} THEN "closing" ELSE @]

\* a socket message: raw is "json" (a string that parses), "malformed" (a string that
\* does not) or "binary" (not a string); requestId and payload are optional, the
\* requestId <<>> is the empty string; a message text is a tuple whose first element is
\* the text (a server's text also names the request it is about: history)
Message(raw, type, requestId, payload, st, text) ==
    [raw |-> raw, type |-> type, requestId |-> requestId, payload |-> payload,
     status |-> st, message |-> text]

\* a variant of handleMessage that leaves the entry in the pending map
handleMessage_NoDelete(w, msg) ==
    IF msg.raw # "json" THEN w
    ELSE IF msg.requestId = Undefined \/ msg.requestId = Some(<<>>) THEN w
    ELSE LET found == MapGet(w.sock.pending, msg.requestId[1])
         IN IF found = {} THEN w
            ELSE LET e == CHOOSE x \in found : TRUE
                 IN [w EXCEPT
                       !.timers = @ \ {e.timeoutId},
                       !.calls[e.promise] =
                           IF msg.type = "error"
                           THEN Reject(@,
                                       IF msg.message = Undefined
                                       THEN <<"WebSocket request failed.">>
                                       ELSE msg.message[1],
                                       IF msg.status = Undefined THEN 500 ELSE msg.status[1])
                           ELSE Resolve(@, msg.payload)]

handleMessage(w, msg) ==
    IF msg.raw # "json" THEN w
    ELSE IF msg.requestId = Undefined \/ msg.requestId = Some(<<>>) THEN w
    ELSE LET found == MapGet(w.sock.pending, msg.requestId[1])
         IN IF found = {} THEN w
            ELSE LET e == CHOOSE x \in found : TRUE
                 IN [w EXCEPT
                       !.sock.pending = MapDelete(@, msg.requestId[1]),
                       !.timers = @ \ {e.timeoutId},
                       !.calls[e.promise] =
                           IF msg.type = "error"
                           THEN Reject(@,
                                       IF msg.message = Undefined
                                       THEN <<"WebSocket request failed.">>
                                       ELSE msg.message[1],
                                       IF msg.status = Undefined THEN 500 ELSE msg.status[1])
                           ELSE Resolve(@, msg.payload)]

SetWorld(w) ==
    /\ sock' = w.sock
    /\ calls' = w.calls
    /\ timers' = w.timers
    /\ c2s' = w.c2s

\* the calls whose promise is in the pending map
PendingCalls == {e.promise : e \in sock.pending}

NoSocketInit ==
    /\ sock = NoSocket
    /\ calls = <<>>
    /\ timers = {}
    /\ c2s = {}
    /\ http = NoHttp
    /\ applied = <<>>
    /\ closedPending = {}

-----------------------------------------------------------------------------
(* History of the hand, kept for the properties *)

NoOp == [op |-> "none", via |-> "none", type |-> "none", amount |-> Undefined, before |-> Null]

\* the lead after an applied action: the human's cost added, the opponent's subtracted
LeadAfterApply(lead, before, after) ==
    IF before.status # "in_progress"
    THEN lead
    ELSE lead + (before.players.human.stack - after.players.human.stack)
              - (before.players.opponent.stack - after.players.opponent.stack)

\* the lead after the blinds of a new hand: the button posts the small blind
LeadAfterBlinds(next) ==
    (IF next.players.human.isButton THEN next.smallBlind ELSE next.bigBlind)
    - (IF next.players.opponent.isButton THEN next.smallBlind ELSE next.bigBlind)

-----------------------------------------------------------------------------
(* The mock engine driven directly: any action type with any amount *)

EngineInit ==
    /\ mode = "mock"
    /\ session = buildInitialMockState
    /\ loading = FALSE
    /\ submitting = FALSE
    /\ error = NoError
    /\ socketRef = FALSE
    /\ loadPc = "done"
    /\ mounted = TRUE
    /\ hookOp = NoHookOp
    /\ amount = 0
    /\ NoSocketInit
    /\ streetLead = 0
    /\ nApplied = 0
    /\ last = NoOp
    /\ policy = NoPolicy
    /\ NoHistory

EngineApply(actionType, amt) ==
    /\ nApplied < MaxOps
    /\ session' = applyMockAction(session, actionType, amt)
    /\ streetLead' = LeadAfterApply(streetLead, session, session')
    /\ nApplied' = nApplied + 1
    /\ last' = [op |-> "apply", via |-> "direct", type |-> actionType, amount |-> amt,
                before |-> session,
                passed |-> argumentAfterApply(session, actionType, amt)]
    /\ UNCHANGED <<mode, loading, submitting, error, socketRef, loadPc, mounted, hookOp>>
    /\ UNCHANGED <<amount, sockVars, netVars, sockHist>>
    /\ UNCHANGED <<policy, histVars>>

EngineNextHand ==
    /\ nApplied < MaxOps
    /\ ParseInt(session.handId) <= MaxHands
    /\ session' = createNextMockHand(session)
    /\ streetLead' = LeadAfterBlinds(session')
    /\ nApplied' = nApplied + 1
    /\ last' = [op |-> "next", via |-> "direct", type |-> "none", amount |-> Undefined,
                before |-> session]
    /\ UNCHANGED <<mode, loading, submitting, error, socketRef, loadPc, mounted, hookOp>>
    /\ UNCHANGED <<amount, sockVars, netVars, sockHist>>
    /\ UNCHANGED <<policy, histVars>>

EngineNext ==
    \/ \E t \in ActionTypes, a \in DirectAmounts : EngineApply(t, a)
    \/ EngineNextHand

SpecEngine == EngineInit /\ [][EngineNext]_vars

-----------------------------------------------------------------------------
(* The socket driven directly: any caller, any server, any network *)

SocketInit ==
    /\ mode = "api"
    /\ session = NoSession
    /\ loading = FALSE
    /\ submitting = FALSE
    /\ error = NoError
    /\ socketRef = TRUE
    /\ loadPc = "done"
    /\ mounted = TRUE
    /\ hookOp = NoHookOp
    /\ amount = 0
    /\ sock = NewSocket
    /\ calls = <<>>
    /\ timers = {}
    /\ c2s = {}
    /\ http = NoHttp
    /\ applied = [u \in 1..MaxCalls |-> 0]
    /\ closedPending = {}
    /\ streetLead = 0
    /\ nApplied = 0
    /\ last = NoOp
    /\ policy = NoPolicy
    /\ NoHistory

\* the values Date.now() returns (two sends may fall into the same millisecond)
Clock == {0, 1}

\* the socket's open event: readyPromise resolves and the suspended send() calls go on
SockOpen(t) ==
    /\ sock.readyState = "connecting"
    /\ sock.ready = "waiting"
    /\ SetWorld(ResumeFrom([World EXCEPT !.sock.readyState = "open", !.sock.ready = "resolved"],
                           1, t))
    /\ UNCHANGED <<applied, closedPending>>

\* the socket's error event before it opened: readyPromise rejects, the suspended calls throw
SockError ==
    /\ sock.readyState \in {"connecting", "closing"}
    /\ sock.ready = "waiting"
    /\ SetWorld(ResumeFrom([World EXCEPT !.sock.readyState = "closing", !.sock.ready = "rejected"],
                           1, 0))
    /\ UNCHANGED <<applied, closedPending>>

\* the listener of the socket's close event, the transport being gone
closeListener(w) ==
    rejectAllPending([w EXCEPT !.sock.readyState = "closed"], <<"WebSocket disconnected.">>)

\* the socket's close event
SockCloseEvent ==
    /\ sock.readyState \in {"open", "closing"}
    /\ sock.ready # "waiting"
    /\ SetWorld(closeListener(World))
    /\ closedPending' = closedPending \cup PendingCalls
    /\ UNCHANGED applied

\* the timeout of call k fires
TimerFire(k) ==
    /\ k \in timers
    /\ SetWorld(timeoutCallback(World, k))
    /\ UNCHANGED <<applied, closedPending>>

\* the server's answer to payload p, as the client's socket gets it: a result with the
\* snapshot or an error, a message event unless the connection is gone by then
serverAnswers(w, p, accept, snap) ==
    LET msg == IF accept
               THEN Message("json", "result", Some(p.requestId),
                            Some(Payload(ServerBody(p.op, snap), p.requestId)),
                            Undefined, Undefined)
               ELSE Message("json", "error", Some(p.requestId), Undefined, Some(409),
                            Some(<<"Illegal action.", p.requestId>>))
        taken == [w EXCEPT !.c2s = @ \ {p}]
    IN IF w.sock.readyState \in {"open", "closing"} THEN handleMessage(taken, msg) ELSE taken

\* the server takes a payload off the socket: it applies the operation and answers with
\* the result, or refuses it and answers with an error
ServerAnswer(p, accept, snap) ==
    /\ p \in c2s
    /\ applied' = IF accept THEN [applied EXCEPT ![p.u] = @ + 1] ELSE applied
    /\ SetWorld(serverAnswers(World, p, accept, snap))
    /\ UNCHANGED closedPending

\* messages nobody asked for: not a string, not JSON, no requestId, an empty or unknown
\* requestId, or a repeated answer or error (without status) to a request sent
StrayMessages ==
    {Message("binary", "result", Undefined, Undefined, Undefined, Undefined),
     Message("malformed", "result", Undefined, Undefined, Undefined, Undefined),
     Message("json", "event", Undefined, Some(Payload(buildInitialMockState, <<>>)),
             Undefined, Undefined),
     Message("json", "result", Some(<<>>), Some(Payload(buildInitialMockState, <<>>)),
             Undefined, Undefined),
     Message("json", "result", Some(<<9, 9>>),
             Some(Payload(buildInitialMockState, <<9, 9>>)), Undefined, Undefined)}
    \cup {Message("json", "result", calls[k].requestId,
                  Some(Payload(buildInitialMockState, calls[k].requestId[1])),
                  Undefined, Undefined) :
            k \in {j \in DOMAIN calls : calls[j].requestId # Undefined}}
    \cup {Message("json", "error", calls[k].requestId, Undefined, Undefined,
                  Some(<<"Already answered.", calls[k].requestId[1]>>)) :
            k \in {j \in DOMAIN calls : calls[j].requestId # Undefined}}

\* a message event with such a message
StrayMessage(msg) ==
    /\ msg \in StrayMessages
    /\ sock.readyState \in {"open", "closing"}
    /\ SetWorld(handleMessage(World, msg))
    /\ UNCHANGED <<applied, closedPending>>

\* a caller invokes submitAction / nextHand / rebuy of the socket
CallSend(op, t) ==
    /\ Len(calls) < MaxCalls
    /\ LET k == Len(calls) + 1
           call == NewCall(op, k, IF op = "action" THEN "check" ELSE "none", Undefined)
           w == [World EXCEPT !.calls = Append(@, call)]
       IN SetWorld(IF sock.ready = "waiting" THEN w ELSE send(w, k, t))
    /\ UNCHANGED closedPending

\* a caller invokes close()
CallClose ==
    /\ sock.readyState # "closed"
    /\ SetWorld(close(World))
    /\ closedPending' = closedPending \cup PendingCalls
    /\ UNCHANGED applied

Untouched == UNCHANGED <<hookVars, amount, engineHist, policy, histVars>>

SocketNext ==
    \/ \E t \in Clock : SockOpen(t) /\ UNCHANGED http /\ Untouched
    \/ SockError /\ UNCHANGED http /\ Untouched
    \/ SockCloseEvent /\ UNCHANGED http /\ Untouched
    \/ \E k \in timers : TimerFire(k) /\ UNCHANGED http /\ Untouched
    \/ \E p \in c2s, accept \in BOOLEAN :
          ServerAnswer(p, accept, buildInitialMockState) /\ UNCHANGED http /\ Untouched
    \/ \E msg \in StrayMessages : StrayMessage(msg) /\ UNCHANGED http /\ Untouched
    \/ \E op \in {"action", "next_hand"}, t \in Clock :
          CallSend(op, t) /\ UNCHANGED <<http, applied>> /\ Untouched
    \/ CallClose /\ UNCHANGED http /\ Untouched

SpecSocket == SocketInit /\ [][SocketNext]_vars

\* the socket where every timeout that stays set fires (window.setTimeout, 10 s)
SpecSocketLive ==
    SpecSocket /\ \A k \in 1..MaxCalls : WF_vars(TimerFire(k) /\ UNCHANGED http /\ Untouched)

-----------------------------------------------------------------------------
(* hooks/useSession and App: the page from its first render on *)

AppInit ==
    /\ mode = "api"
    /\ session = NoSession
    /\ loading = TRUE
    /\ submitting = FALSE
    /\ error = NoError
    /\ socketRef = FALSE
    /\ loadPc = "create"
    /\ mounted = TRUE
    /\ hookOp = NoHookOp
    /\ amount = 0
    /\ sock = NoSocket
    /\ calls = <<>>
    /\ timers = {}
    /\ c2s = {}
    /\ http = NoHttp
    /\ applied = [u \in 1..MaxCalls |-> 0]
    /\ closedPending = {}
    /\ streetLead = 0
    /\ nApplied = 0
    /\ last = NoOp
    /\ policy = NoPolicy
    /\ NoHistory

\* closeSocket(): socketRef.current?.close()
closeSocket(w, ref) == IF ref THEN close(w) ELSE w

\* a variant of bootstrapMock without setLoading(false)
bootstrapMock_KeepsLoading ==
    /\ SetWorld(closeSocket(World, socketRef))
    /\ closedPending' = closedPending \cup (IF socketRef THEN PendingCalls ELSE {})
    /\ socketRef' = FALSE
    /\ mode' = "mock"
    /\ session' = buildInitialMockState
    /\ loading' = loading
    /\ error' = <<"Backend not reachable. Running in local mock mode.">>
    /\ handSummaries' = buildMockHandSummaries(buildInitialMockState.handId)
    /\ replays' = buildMockReplays(buildInitialMockState)
    /\ selectedReplay' = buildMockReplays(buildInitialMockState)[1]
    /\ amount' = amountAfter(loading, session, loading, buildInitialMockState, amount)

\* bootstrapMock(), called from load()'s catch
bootstrapMock ==
    /\ SetWorld(closeSocket(World, socketRef))
    /\ closedPending' = closedPending \cup (IF socketRef THEN PendingCalls ELSE {})
    /\ socketRef' = FALSE
    /\ mode' = "mock"
    /\ session' = buildInitialMockState
    /\ loading' = FALSE
    /\ error' = <<"Backend not reachable. Running in local mock mode.">>
    /\ handSummaries' = buildMockHandSummaries(buildInitialMockState.handId)
    /\ replays' = buildMockReplays(buildInitialMockState)
    /\ selectedReplay' = buildMockReplays(buildInitialMockState)[1]
    /\ amount' = amountAfter(loading, session, FALSE, buildInitialMockState, amount)

\* load(): pokerApi.createSession() settles
LoadCreateSession(ok) ==
    /\ loadPc = "create"
    /\ IF ok /\ mounted
       THEN /\ mode' = "api"
            /\ session' = ServerInProgress
            /\ loadPc' = "refresh"
            /\ UNCHANGED <<loading, error, socketRef, amount, sockVars, closedPending,
                           histVars>>
       ELSE /\ loadPc' = "done"
            /\ IF ~ok /\ mounted
               THEN bootstrapMock
               ELSE UNCHANGED <<mode, session, loading, error, socketRef, amount, sockVars,
                                closedPending, histVars>>
    /\ UNCHANGED <<submitting, mounted, hookOp, netVars, engineHist>>
    /\ UNCHANGED policy

\* load(): refreshHandsFromApi() settles; on success connectSocket() makes the socket
LoadRefreshHands(ok) ==
    /\ loadPc = "refresh"
    /\ IF ok
       THEN /\ SetWorld([closeSocket(World, socketRef) EXCEPT !.sock = NewSocket])
            /\ loadPc' = "connect"
            /\ UNCHANGED <<mode, session, loading, error, socketRef, amount, closedPending,
                           histVars>>
       ELSE /\ loadPc' = "done"
            /\ IF mounted
               THEN bootstrapMock
               ELSE UNCHANGED <<mode, session, loading, error, socketRef, amount, sockVars,
                                closedPending, histVars>>
    /\ UNCHANGED <<submitting, mounted, hookOp, netVars, engineHist>>
    /\ UNCHANGED policy

\* a variant of LoadConnected that falls back to mock mode when the socket failed
LoadConnected_MockOnFailure(opened) ==
    /\ loadPc = "connect"
    /\ loadPc' = "done"
    /\ socketRef' = opened
    /\ IF mounted
       THEN /\ error' = NoError
            /\ loading' = FALSE
            /\ amount' = amountAfter(loading, session, FALSE, session, amount)
       ELSE UNCHANGED <<error, loading, amount>>
    /\ mode' = IF mounted /\ ~opened THEN "mock" ELSE mode
    /\ UNCHANGED <<session, submitting, mounted, hookOp, http, engineHist>>
    /\ UNCHANGED <<policy, histVars>>

\* load(): connectSocket() settles with the socket (opened) or with null (failed)
LoadConnected(opened) ==
    /\ loadPc = "connect"
    /\ loadPc' = "done"
    /\ socketRef' = opened
    /\ IF mounted
       THEN /\ error' = NoError
            /\ loading' = FALSE
            /\ amount' = amountAfter(loading, session, FALSE, session, amount)
       ELSE UNCHANGED <<error, loading, amount>>
    /\ UNCHANGED <<mode, session, submitting, mounted, hookOp, http, engineHist>>
    /\ UNCHANGED <<policy, histVars>>

\* the socket opens while openSessionSocket() awaits it
AppSockOpen(t) == SockOpen(t) /\ LoadConnected(TRUE)

\* the connection fails while openSessionSocket() awaits it
AppSockError == SockError /\ LoadConnected(FALSE)

\* the request a submitAction / nextHand call makes over HTTP
\* a variant of nextHandOp that never asks for a rebuy
nextHandOp_NeverRebuy(status) == "next_hand"

\* useSession.nextHand: the operation it asks for, from the status of the session its
\* closure holds (the same choice at each of its three call sites)
nextHandOp(status) == IF status = "session_complete" THEN "rebuy" ELSE "next_hand"

\* the operation the inner catch of the awaiting call h sends over HTTP
fallbackOp(h) == IF h.op = "action" THEN "action" ELSE nextHandOp(h.status)

HttpRequest(h) == [op |-> h.op, u |-> h.u, actionType |-> h.actionType, amount |-> h.amount]

\* a variant of HookSucceed without setError(null)
HookSucceed_KeepsError(body) ==
    /\ hookOp' = NoHookOp
    /\ IF mounted
       THEN /\ session' = IF hookOp.op = "action" THEN body.sessionState ELSE body
            /\ error' = error
            /\ submitting' = FALSE
            /\ amount' = amountAfter(loading, session, loading, session', amount)
       ELSE UNCHANGED <<session, error, submitting, amount>>

\* the awaited request succeeded: setSession, setError(null), finally setSubmitting(false)
HookSucceed(body) ==
    /\ hookOp' = NoHookOp
    /\ IF mounted
       THEN /\ session' = IF hookOp.op = "action" THEN body.sessionState ELSE body
            /\ error' = NoError
            /\ submitting' = FALSE
            /\ amount' = amountAfter(loading, session, loading, session', amount)
       ELSE UNCHANGED <<session, error, submitting, amount>>

\* a variant of HookFail without the finally block
HookFail_NoFinally(st) ==
    /\ hookOp' = NoHookOp
    /\ IF mounted
       THEN /\ error' = IF hookOp.op # "action" THEN <<"Could not start next hand.">>
                        ELSE IF st = Undefined THEN <<"Action failed.">>
                        ELSE <<"Action rejected", st[1]>>
            /\ submitting' = submitting
       ELSE UNCHANGED <<error, submitting>>
    /\ UNCHANGED <<session, amount>>

\* the awaited HTTP request failed: the catch and finally blocks (st is the status of an
\* ApiError, Undefined for any other error)
HookFail(st) ==
    /\ hookOp' = NoHookOp
    /\ IF mounted
       THEN /\ error' = IF hookOp.op # "action" THEN <<"Could not start next hand.">>
                        ELSE IF st = Undefined THEN <<"Action failed.">>
                        ELSE <<"Action rejected", st[1]>>
            /\ submitting' = FALSE
       ELSE UNCHANGED <<error, submitting>>
    /\ UNCHANGED <<session, amount>>

\* the socket step that led to world w settled the promise the hook awaits
HookResumes(w) ==
    /\ hookOp.op # "none"
    /\ hookOp.wire = "ws"
    /\ w.calls[hookOp.call].outcome # "pending"

\* a promise nobody holds any more: only its settlement is kept
Forgotten(c) ==
    [NewCall("none", 0, "none", Undefined) EXCEPT
        !.stage = "done", !.outcome = c.outcome, !.settles = c.settles]

\* the socket step that led to world w is over: what the awaiting submitAction / nextHand
\* call does if its promise is settled: go on with the result, or (inner catch) send the
\* same operation over HTTP; the promise is dropped
AfterSocketStep(w) ==
    IF HookResumes(w)
    THEN /\ SetWorld([w EXCEPT !.calls[hookOp.call] = Forgotten(@)])
         /\ IF w.calls[hookOp.call].outcome = "resolved"
            THEN /\ HookSucceed(w.calls[hookOp.call].value[1].body)
                 /\ http' = http
            ELSE /\ hookOp' = [hookOp EXCEPT !.wire = "http", !.https = @ + 1]
                 /\ http' = HttpRequest([hookOp EXCEPT !.op = fallbackOp(hookOp)])
                 /\ UNCHANGED <<session, error, submitting, amount>>
    ELSE /\ SetWorld(w)
         /\ UNCHANGED <<session, error, submitting, amount, hookOp, http>>

\* the effect's cleanup: cancelled = true, closeSocket()
Unmount ==
    /\ mounted
    /\ mounted' = FALSE
    /\ AfterSocketStep(closeSocket(World, socketRef))
    /\ closedPending' = closedPending \cup (IF socketRef THEN PendingCalls ELSE {})
    /\ socketRef' = FALSE
    /\ UNCHANGED <<mode, loading, loadPc, applied, engineHist>>
    /\ UNCHANGED <<policy, histVars>>

\* the socket's close event once the page is up
AppSockCloseEvent ==
    /\ loadPc = "done"
    /\ sock.readyState \in {"open", "closing"}
    /\ sock.ready # "waiting"
    /\ AfterSocketStep(closeListener(World))
    /\ closedPending' = closedPending \cup PendingCalls
    /\ UNCHANGED <<mode, loading, socketRef, loadPc, mounted, applied, engineHist>>
    /\ UNCHANGED <<policy, histVars>>

\* the timeout of call k fires
AppTimerFire(k) ==
    /\ k \in timers
    /\ AfterSocketStep(timeoutCallback(World, k))
    /\ UNCHANGED <<mode, loading, socketRef, loadPc, mounted, applied, closedPending,
                   engineHist>>
    /\ UNCHANGED <<policy, histVars>>

\* the server takes a payload off the socket and answers
AppServerAnswer(p, accept, snap) ==
    /\ p \in c2s
    /\ applied' = IF accept THEN [applied EXCEPT ![p.u] = @ + 1] ELSE applied
    /\ AfterSocketStep(serverAnswers(World, p, accept, snap))
    /\ UNCHANGED <<mode, loading, socketRef, loadPc, mounted, closedPending, engineHist>>
    /\ UNCHANGED <<policy, histVars>>

\* the server answers the HTTP request: it applied the operation, or refused it (409)
HttpAnswer(accept, snap) ==
    /\ http.op # "none"
    /\ http' = NoHttp
    /\ applied' = IF accept THEN [applied EXCEPT ![http.u] = @ + 1] ELSE applied
    /\ IF accept THEN HookSucceed(ServerBody(http.op, snap)) ELSE HookFail(Some(409))
    /\ UNCHANGED <<mode, loading, socketRef, loadPc, mounted, sockVars, closedPending,
                   engineHist>>
    /\ UNCHANGED <<policy, histVars>>

\* fetch() rejects: the request never reached the server, or its response was lost
HttpNetworkFail(reached) ==
    /\ http.op # "none"
    /\ http' = NoHttp
    /\ applied' = IF reached THEN [applied EXCEPT ![http.u] = @ + 1] ELSE applied
    /\ HookFail(Undefined)
    /\ UNCHANGED <<mode, loading, socketRef, loadPc, mounted, sockVars, closedPending,
                   engineHist>>
    /\ UNCHANGED <<policy, histVars>>

\* a variant of useSocket that never looks at the connection
useSocket_Always(ref, s) == TRUE

\* submitAction / nextHand: socketRef.current?.isConnected()
useSocket(ref, s) == ref /\ isConnected(s)

\* submitAction / nextHand in API mode, up to the first await: over the socket when it
\* is connected, over HTTP otherwise
SubmitOverApi(op, actionType, amt) ==
    /\ nApplied < MaxCalls
    /\ submitting' = TRUE
    /\ nApplied' = nApplied + 1
    /\ LET h == [op |-> op, u |-> nApplied + 1, actionType |-> actionType, amount |-> amt]
       IN IF useSocket(socketRef, sock)
          THEN /\ \E t \in Clock :
                    SetWorld(send([World EXCEPT
                                     !.calls = Append(@, NewCall(op, h.u, actionType, amt))],
                                  Len(calls) + 1, t))
               /\ hookOp' = [op |-> op, u |-> h.u, actionType |-> actionType, amount |-> amt,
                             wire |-> "ws", call |-> Len(calls) + 1,
                             status |-> session.status,
                             connected |-> socketRef /\ isConnected(sock),
                             sockets |-> 1, https |-> 0]
               /\ http' = http
          ELSE /\ hookOp' = [op |-> op, u |-> h.u, actionType |-> actionType, amount |-> amt,
                             wire |-> "http", call |-> 0, status |-> session.status,
                             connected |-> socketRef /\ isConnected(sock),
                             sockets |-> 0, https |-> 1]
               /\ http' = HttpRequest(h)
               /\ UNCHANGED sockVars
    /\ UNCHANGED <<mode, session, loading, error, socketRef, loadPc, mounted, amount, applied,
                   closedPending, streetLead, last, histVars>>

\* a click on an action button: ActionControls.onAction, then useSession.submitAction
ClickAction(type) ==
    /\ mounted
    /\ TableRendered(loading, session)
    /\ ~ActionControlsDisabled(submitting, session)
    /\ legalByType(session.legalActions, type) # Undefined
    /\ nApplied < MaxOps
    /\ LET amt == onActionAmount(session.legalActions, type, amount)
       IN IF mode = "api"
          THEN SubmitOverApi("action", type, amt)
          ELSE /\ session' = applyMockAction(session, type, amt)
               /\ amount' = amountAfter(loading, session, loading, session', amount)
               /\ streetLead' = LeadAfterApply(streetLead, session, session')
               /\ nApplied' = nApplied + 1
               /\ last' = [op |-> "apply", via |-> "controls", type |-> type, amount |-> amt,
                           before |-> session,
                           passed |-> argumentAfterApply(session, type, amt)]
               /\ replays' = replaysAfterAction(replays, session')
               /\ selectedReplay' = HandReplay(session', "mock-live-seed")
               /\ handSummaries' = summariesAfterAction(handSummaries, session')
               /\ UNCHANGED <<mode, loading, submitting, error, socketRef, loadPc, mounted,
                              hookOp, sockVars, netVars, sockHist>>
    /\ UNCHANGED policy

\* a click on the next-hand button: useSession.nextHand
ClickNextHand ==
    /\ mounted
    /\ TableRendered(loading, session)
    /\ showNextHand(session)
    /\ ~NextHandDisabled(submitting)
    /\ nApplied < MaxOps
    /\ IF mode = "api"
       THEN SubmitOverApi(nextHandOp(session.status), "none", Undefined)
       ELSE /\ ParseInt(session.handId) <= MaxHands
            /\ session' = createNextMockHand(session)
            /\ amount' = amountAfter(loading, session, loading, session', amount)
            /\ streetLead' = LeadAfterBlinds(session')
            /\ nApplied' = nApplied + 1
            /\ last' = [op |-> "next", via |-> "controls", type |-> "none",
                        amount |-> Undefined, before |-> session]
            /\ replays' = <<HandReplay(session', "mock-next-seed")>> \o replays
            /\ selectedReplay' = HandReplay(session', "mock-next-seed")
            /\ handSummaries' =
                  <<[handId |-> session'.handId, winner |-> Null, finalPot |-> session'.pot]>>
                     \o handSummaries
            /\ UNCHANGED <<mode, loading, submitting, error, socketRef, loadPc, mounted,
                           hookOp, sockVars, netVars, sockHist>>
    /\ UNCHANGED policy

\* the amount input or the slider changes: setAmount(clamp(Number(value)))
SetAmount(value) ==
    /\ mounted
    /\ TableRendered(loading, session)
    /\ canSize(session.legalActions)
    /\ ~ActionControlsDisabled(submitting, session)
    /\ amount' = clamp(session.legalActions, value)
    /\ UNCHANGED <<hookVars, sockVars, netVars, engineHist, sockHist>>
    /\ UNCHANGED <<policy, histVars>>

\* a click on a hand of ReplayPanel: useSession.selectReplay, mock branch (in API mode the
\* replay is fetched from the server, which is not followed here)
SelectReplay(i) ==
    /\ mounted
    /\ TableRendered(loading, session)
    /\ mode = "mock"
    /\ i \in DOMAIN handSummaries
    /\ selectedReplay' = findReplay(replays, handSummaries[i].handId)
    /\ UNCHANGED <<hookVars, amount, sockVars, netVars, engineHist, sockHist, policy,
                   handSummaries, replays>>

Next ==
    \/ \E ok \in BOOLEAN : LoadCreateSession(ok)
    \/ \E ok \in BOOLEAN : LoadRefreshHands(ok)
    \/ \E t \in Clock : AppSockOpen(t)
    \/ AppSockError
    \/ Unmount
    \/ AppSockCloseEvent
    \/ \E k \in timers : AppTimerFire(k)
    \/ \E p \in c2s, accept \in BOOLEAN, snap \in ServerSnapshots :
          AppServerAnswer(p, accept, snap)
    \/ \E accept \in BOOLEAN, snap \in ServerSnapshots : HttpAnswer(accept, snap)
    \/ \E reached \in BOOLEAN : HttpNetworkFail(reached)
    \/ \E type \in ActionTypes : ClickAction(type)
    \/ ClickNextHand
    \/ \E value \in TypedValues : SetAmount(value)
    \/ \E i \in DOMAIN handSummaries : SelectReplay(i)

Spec == AppInit /\ [][Next]_vars

\* a step of load(): the promise it awaits settles
LoadStep ==
    \/ \E ok \in BOOLEAN : LoadCreateSession(ok)
    \/ \E ok \in BOOLEAN : LoadRefreshHands(ok)
    \/ \E t \in Clock : AppSockOpen(t)
    \/ AppSockError

\* the page where every request of load() and the connection attempt get an outcome: a
\* fetch resolves or rejects, a WebSocket that is connecting opens or fires error
SpecLive == Spec /\ WF_vars(LoadStep)

-----------------------------------------------------------------------------
(* components/ActionControls on its own: any legalActions, any disabled, any handler *)

\* legalActions lists given to the component: the one of its test, the two of the mock
\* engine, one without sizing, one with all_in as the only sizing action
ControlsLists ==
    { << LegalAction("check", Undefined, Undefined, Undefined),
         LegalAction("bet", Some(2), Some(5), Undefined),
         LegalAction("all_in", Some(20), Some(20), Undefined) >>,
      buildInitialMockState.legalActions,
      createNextMockHand(buildInitialMockState).legalActions,
      << LegalAction("check", Undefined, Undefined, Undefined) >>,
      << LegalAction("fold", Undefined, Undefined, Undefined),
         LegalAction("call", Undefined, Undefined, Some(3)),
         LegalAction("all_in", Some(7), Some(7), Undefined) >> }

\* a session that shows the list; disabled is submitting || showNextHand
ControlsSession(legalActions, st) ==
    [buildInitialMockState EXCEPT !.legalActions = legalActions, !.status = st]

ControlsInit ==
    /\ mode = "mock"
    /\ session \in {ControlsSession(l, st) :
                      l \in ControlsLists, st \in {"in_progress", "hand_complete"}}
    /\ loading = FALSE
    /\ submitting \in BOOLEAN
    /\ error = NoError
    /\ socketRef = FALSE
    /\ loadPc = "done"
    /\ mounted = TRUE
    /\ hookOp = NoHookOp
    /\ amount = minAmount(session.legalActions)
    /\ NoSocketInit
    /\ streetLead = 0
    /\ nApplied = 0
    /\ last = NoOp
    /\ policy = NoPolicy
    /\ NoHistory

\* the parent renders the component with other props
ControlsRerender(legalActions, st, sub) ==
    /\ session' = ControlsSession(legalActions, st)
    /\ submitting' = sub
    /\ amount' = amountAfter(loading, session, loading, session', amount)
    /\ UNCHANGED <<mode, loading, error, socketRef, loadPc, mounted, hookOp>>
    /\ UNCHANGED <<sockVars, netVars, engineHist, sockHist>>
    /\ UNCHANGED <<policy, histVars>>

\* onAction(type) runs, for the button of any type: it returns early or calls onSubmit
ControlsOnAction(type) ==
    /\ LET disabled == ActionControlsDisabled(submitting, session)
       IN last' = [op |-> IF onActionReturnsEarly(disabled, session.legalActions, type)
                          THEN "ignored" ELSE "submit",
                   via |-> "controls", type |-> type,
                   amount |-> onActionAmount(session.legalActions, type, amount),
                   before |-> session, disabled |-> disabled]
    /\ UNCHANGED <<hookVars, amount, sockVars, netVars, streetLead, nApplied, sockHist>>
    /\ UNCHANGED <<policy, histVars>>

ControlsNext ==
    \/ \E l \in ControlsLists, st \in {"in_progress", "hand_complete"}, sub \in BOOLEAN :
          ControlsRerender(l, st, sub)
    \/ \E type \in ActionTypes : ControlsOnAction(type)
    \/ \E value \in TypedValues : SetAmount(value)

SpecControls == ControlsInit /\ [][ControlsNext]_vars

-----------------------------------------------------------------------------
(* The Opponent Policy Service of the server, serving the requests of the     *)
(* session manager: cache, external call under timeout and retries, per-      *)
(* request budget of policy calls, deterministic fallback                     *)

\* the hand states the opponent is asked to act in
PolicyHandStates == {"facing_bet", "checked_to"}

\* legalActions(handState), by action type
legalActionsOf(handState) ==
    IF handState = "facing_bet" THEN {"fold", "call", "raise"} ELSE {"check", "bet"}

\* the fingerprint of the serialized visible state (the legal actions are part of it)
fingerprint(handState) == handState

\* a variant of fallbackPolicy that ignores what is legal
fallbackPolicy_AlwaysCall(handState) == "call"

\* the deterministic heuristic: always a legal action
fallbackPolicy(handState) ==
    IF "check" \in legalActionsOf(handState) THEN "check"
    ELSE IF "call" \in legalActionsOf(handState) THEN "call"
    ELSE "fold"

\* the cache: entries [fp, action], most recently used first
cacheHit(cache, fp) == {i \in DOMAIN cache : cache[i].fp = fp}

WithoutEntry(cache, fp) == SelectSeq(cache, LAMBDA e : e.fp # fp)

cacheTouch(cache, fp, action, capacity) ==
    LET all == <<[fp |-> fp, action |-> action]>> \o WithoutEntry(cache, fp)
    IN SubSeq(all, 1, Min(capacity, Len(all)))

\* a variant of budgetExhausted that never stops the external calls
budgetExhausted_Never(p) == FALSE

\* the policy calls of this request have reached the configured maximum
budgetExhausted(p) == p.policyCalls >= p.maxCalls

\* another attempt is allowed after a failed one
mayRetry(p) == p.attempts < 1 + p.retries

\* decide returns action to the session manager
returnWith(p, action, via) ==
    [p EXCEPT !.pc = "returned", !.action = action, !.via = via, !.raised = "none"]

PolicyInit ==
    /\ mode = "api"
    /\ session = NoSession
    /\ loading = FALSE
    /\ submitting = FALSE
    /\ error = NoError
    /\ socketRef = FALSE
    /\ loadPc = "done"
    /\ mounted = TRUE
    /\ hookOp = NoHookOp
    /\ amount = 0
    /\ NoSocketInit
    /\ streetLead = 0
    /\ nApplied = 0
    /\ last = NoOp
    /\ NoHistory
    /\ policy \in {[pc |-> "idle", retries |-> r, maxCalls |-> c, apiKey |-> k,
                     capacity |-> n, cache |-> <<>>, handState |-> "none",
                     policyCalls |-> 0, attempts |-> 0, decisions |-> 0,
                     exhausted |-> FALSE, action |-> "none", via |-> "none",
                     raised |-> "none"] :
                       r \in 0..MaxRetries, c \in 1..MaxPolicyCalls, k \in BOOLEAN,
                       n \in 1..2}

\* a request comes in (submitHumanAction): its budget of policy calls starts at zero
PolicyRequestBegins ==
    /\ policy.pc = "idle"
    /\ policy' = [policy EXCEPT !.pc = "request", !.policyCalls = 0, !.decisions = 0,
                                !.attempts = 0, !.handState = "none", !.action = "none",
                                !.via = "none", !.exhausted = FALSE]
    /\ UNCHANGED clientVars

\* it is the opponent's turn: decide(handState, budget) up to its return or its first
\* external call
PolicyDecide(handState) ==
    /\ policy.pc = "request"
    /\ policy.decisions < MaxDecisions
    /\ LET p == [policy EXCEPT !.handState = handState, !.attempts = 0,
                               !.decisions = @ + 1, !.action = "none", !.via = "none",
                               !.exhausted = budgetExhausted(policy)]
           hit == cacheHit(policy.cache, fingerprint(handState))
       IN policy' =
            IF hit # {}
            THEN LET e == policy.cache[CHOOSE i \in hit : TRUE]
                 IN returnWith([p EXCEPT !.cache = cacheTouch(@, e.fp, e.action, p.capacity)],
                               e.action, "cache")
            ELSE IF ~p.apiKey \/ budgetExhausted(policy)
            THEN returnWith(p, fallbackPolicy(handState), "fallback")
            ELSE [p EXCEPT !.pc = "calling", !.policyCalls = @ + 1, !.attempts = 1]
    /\ UNCHANGED clientVars

\* the external decision source answers within the timeout: a legal action is cached
\* and returned, any other answer is replaced by the fallback
PolicyAnswer(action) ==
    /\ policy.pc = "calling"
    /\ policy' =
          IF action \in legalActionsOf(policy.handState)
          THEN returnWith([policy EXCEPT !.cache = cacheTouch(@, fingerprint(policy.handState),
                                                             action, policy.capacity)],
                          action, "external")
          ELSE returnWith(policy, fallbackPolicy(policy.handState), "fallback")
    /\ UNCHANGED clientVars

\* the external call times out or its transport fails: retry, or fall back
PolicyFails(failure) ==
    /\ policy.pc = "calling"
    /\ policy' = IF mayRetry(policy)
                 THEN [policy EXCEPT !.attempts = @ + 1]
                 ELSE returnWith(policy, fallbackPolicy(policy.handState), "fallback")
    /\ UNCHANGED clientVars

\* the session manager applies the opponent's action and goes on with the request
PolicyApplied ==
    /\ policy.pc = "returned"
    /\ policy' = [policy EXCEPT !.pc = "request"]
    /\ UNCHANGED clientVars

\* control is back with the human or the hand is over: the request is answered
PolicyRequestEnds ==
    /\ policy.pc = "request"
    /\ policy' = [policy EXCEPT !.pc = "idle"]
    /\ UNCHANGED clientVars

PolicyNext ==
    \/ PolicyRequestBegins
    \/ \E handState \in PolicyHandStates : PolicyDecide(handState)
    \/ \E action \in ActionTypes : PolicyAnswer(action)
    \/ \E failure \in {"timeout", "transport"} : PolicyFails(failure)
    \/ PolicyApplied
    \/ PolicyRequestEnds

SpecPolicy == PolicyInit /\ [][PolicyNext]_vars

-----------------------------------------------------------------------------
(* Properties of the mock engine *)

ChipTotal(state) ==
    state.players.human.stack + state.players.opponent.stack + state.pot

\* what an observer of the hand sees: stacks, pot, street, board, status, event feed
Observable(state) ==
    <<state.players.human.stack, state.players.opponent.stack, state.pot, state.street,
      state.board, state.status, state.actionFeed>>

Applied == last.op = "apply"

AppliedInProgress == Applied /\ last.before.status = "in_progress"

\* the legal action of a type, as a set (empty when the type is not listed)
LegalOfType(state, t) ==
    {state.legalActions[i] : i \in {j \in DOMAIN state.legalActions : state.legalActions[j].type = t}}

\* the action is listed and, where bounds are given, its amount lies within them
IsLegal(state, t, amt) ==
    \E la \in LegalOfType(state, t) :
        (la.minAmount # Undefined \/ la.maxAmount # Undefined) =>
            /\ amt # Undefined
            /\ la.minAmount # Undefined => Num(la.minAmount[1]) <= amt[1]
            /\ la.maxAmount # Undefined => amt[1] <= Num(la.maxAmount[1])

HumanPaid == last.before.players.human.stack - session.players.human.stack

OpponentPaid == last.before.players.opponent.stack - session.players.opponent.stack

\* the opponent's event of the last applied action (the human did not fold)
OpponentEvent == session.actionFeed[Len(last.before.actionFeed) + 2]

\* chips the opponent owed when it acted: the human's lead on this street
OpponentOwed == Max(0, streetLead + OpponentPaid)

\* C5: chip conservation. After every applied action (any type, any amount, from the
\* initial mock state or a state made by createNextMockHand) human stack + opponent
\* stack + pot equals what it was before the action.
C5_ChipConservation ==
    Applied => ChipTotal(session) = ChipTotal(last.before)

\* C5 witness: in a later hand an action with an amount above the human's stack was
\* applied and both players paid into the pot.
C5_Witness ==
    /\ AppliedInProgress
    /\ ParseInt(session.handId) > 1
    /\ last.amount # Undefined
    /\ Floor(last.amount[1]) > last.before.players.human.stack
    /\ HumanPaid > 0
    /\ OpponentPaid > 0

\* C6: an action that is not listed in legalActions, or whose amount lies outside the
\* listed bounds, leaves stacks, pot, street, board, status and feed unchanged; a listed
\* action is applied (the feed grows).
C6_IllegalRejected ==
    AppliedInProgress =>
        IF IsLegal(last.before, last.type, last.amount)
        THEN Len(session.actionFeed) > Len(last.before.actionFeed)
        ELSE Observable(session) = Observable(last.before)

\* C7: the action applied for the opponent is legal: check only when it owes nothing,
\* call only when it owes chips and for exactly the owed amount (capped at its stack),
\* all_in for its entire remaining stack.
C7_OpponentActsLegally ==
    (AppliedInProgress /\ last.type # "fold") =>
        /\ OpponentEvent.actor = "opponent"
        /\ OpponentEvent.action \in {"check", "call", "all_in"}
        /\ OpponentEvent.action = "check" => OpponentOwed = 0
        /\ OpponentEvent.action = "call" =>
              /\ OpponentOwed > 0
              /\ OpponentPaid = Min(OpponentOwed, last.before.players.opponent.stack)
        /\ OpponentEvent.action = "all_in" =>
              OpponentPaid = last.before.players.opponent.stack

\* C8: after a fold on an in-progress hand the status is hand_complete, no action is
\* legal, and the stack of the player who did not fold has grown by the whole pot.
C8_FoldAwardsPot ==
    (AppliedInProgress /\ last.type = "fold") =>
        /\ session.status = "hand_complete"
        /\ session.legalActions = <<>>
        /\ session.players.opponent.stack
              = last.before.players.opponent.stack + last.before.pot

-----------------------------------------------------------------------------
(* Properties of the socket *)

\* the payload of call k is still on its way to the server
Unanswered(k) == \E p \in c2s : p.u = calls[k].u /\ Some(p.requestId) = calls[k].requestId

DisconnectTexts == {Some(<<"WebSocket disconnected.">>), Some(<<"WebSocket closed.">>)}

\* C3: when the close event fires or close() is called, every request in the pending map
\* is rejected with the disconnect or closed error of status 0 and its timer is cleared;
\* the pending map is empty from then on, and whatever comes later for such a request
\* (an answer, a timer) changes nothing: it stays rejected that way, settled exactly once
C3_TransportLossFailsWaiting ==
    /\ \A k \in closedPending :
          /\ calls[k].outcome = "rejected"
          /\ calls[k].status = 0
          /\ calls[k].message \in DisconnectTexts
          /\ calls[k].settles = 1
          /\ k \notin timers
          /\ k \notin PendingCalls
    /\ sock.readyState \in {"closing", "closed"} => sock.pending = {}

\* two requests were waiting when close() was called, and the server's answer to one of
\* them was delivered afterwards
C3_Witness ==
    /\ Cardinality(closedPending) >= 2
    /\ sock.readyState = "closing"
    /\ \E k \in closedPending :
          /\ calls[k].stage = "sent"
          /\ ~Unanswered(k)
          /\ applied[calls[k].u] = 1

\* C4: a request is resolved only with the payload of a message that carries its own
\* requestId, and rejected by a message only if that message carries its requestId;
\* messages without a requestId, with an unknown one, or for a request that timed out or
\* was disconnected settle nothing; every request is settled at most once
C4_Correlation ==
    \A k \in DOMAIN calls :
        /\ calls[k].settles <= 1
        /\ calls[k].outcome = "pending" <=> calls[k].settles = 0
        /\ calls[k].outcome = "resolved" =>
              /\ calls[k].requestId # Undefined
              /\ calls[k].value # Undefined
              /\ calls[k].value[1].echo = calls[k].requestId[1]
        /\ (calls[k].outcome = "rejected" /\ Len(calls[k].message[1]) = 2) =>
              /\ calls[k].requestId # Undefined
              /\ calls[k].message[1][2] = calls[k].requestId[1]
              /\ calls[k].status \in {409, 500}
        /\ (calls[k].outcome = "rejected" /\ Len(calls[k].message[1]) = 1) =>
              calls[k].status \in {0, 504}

\* two requests sent in the same millisecond were waiting together; one was resolved by
\* the answer that carries its id, one timed out, and the other's answer is still to come
C4_Witness ==
    \E k1, k2 \in DOMAIN calls :
        /\ k1 # k2
        /\ calls[k1].outcome = "resolved"
        /\ calls[k2].outcome = "pending"
        /\ k2 \in PendingCalls
        /\ Unanswered(k2)
        /\ calls[k1].requestId[1][1] = calls[k2].requestId[1][1]

-----------------------------------------------------------------------------
(* Properties of the page *)

\* the send() promises not yet settled
PendingPromises == {k \in DOMAIN calls : calls[k].outcome = "pending"}

\* the mutating requests of the session that are sent and not yet settled at the client
Outstanding == Cardinality(PendingPromises) + (IF http.op # "none" THEN 1 ELSE 0)

\* C1: the server's engine applies one user operation (one call of submitAction or
\* nextHand in API mode) at most once, whatever becomes of the socket request (answer,
\* error, timeout, disconnect) and of the hook's re-submission over HTTP
C1_NoDuplicateApplied ==
    \A u \in DOMAIN applied : applied[u] <= 1

\* C2: whatever the user clicks, at most one mutating request (action, next hand, rebuy)
\* is outstanding at any time: the next one is sent only when the one before has
\* settled; while one is outstanding a call of the hook awaits it and the buttons of a
\* mounted page are disabled
C2_OneInFlight ==
    /\ Outstanding <= 1
    /\ Outstanding = 1 =>
          /\ hookOp.op # "none"
          /\ mounted => submitting
          /\ hookOp.wire = "ws" <=> http.op = "none"

\* an action was answered over the socket with a finished hand, and the next-hand request
\* the user then clicked for is outstanding
C2_Witness ==
    /\ nApplied = 2
    /\ Len(calls) = 2
    /\ calls[1].outcome = "resolved"
    /\ calls[2].outcome = "pending"
    /\ hookOp.op = "next_hand"
    /\ applied[1] = 1
    /\ Outstanding = 1

\* the last operation was an action submitted through ActionControls and applied to a
\* hand in progress
AppliedByControls == AppliedInProgress /\ last.via = "controls"

\* C9: when call is legal with toCall = n, a call submitted through ActionControls moves
\* exactly min(n, the human's stack) chips from the human's stack to the pot
C9_CallCommitsOwed ==
    (AppliedByControls /\ last.type = "call") =>
        \A la \in LegalOfType(last.before, "call") :
            /\ la.toCall # Undefined
            /\ HumanPaid = Min(la.toCall[1], last.before.players.human.stack)
            /\ session.pot = last.before.pot + HumanPaid + OpponentPaid

\* C10: an all_in submitted through ActionControls commits the human's entire stack and
\* leaves it at 0, whatever the bet or raise bounds are; an all_in chosen for the
\* opponent commits the opponent's entire stack and leaves it at 0
C10_AllInCommitsStack ==
    /\ (AppliedByControls /\ last.type = "all_in") =>
          /\ HumanPaid = last.before.players.human.stack
          /\ session.players.human.stack = 0
    /\ (AppliedByControls /\ last.type # "fold" /\ OpponentEvent.action = "all_in") =>
          /\ OpponentPaid = last.before.players.opponent.stack
          /\ session.players.opponent.stack = 0

-----------------------------------------------------------------------------
(* Properties of ActionControls *)

\* onAction called onSubmit
Submitted == last.op = "submit"

C12_OnlyLegalSubmitted ==
    /\ \A type \in ActionTypes :
          ~isDisabled(ActionControlsDisabled(submitting, session), session.legalActions, type)
             <=> /\ LegalOfType(session, type) # {}
                 /\ ~ActionControlsDisabled(submitting, session)
    /\ Submitted => (LegalOfType(last.before, last.type) # {} /\ ~last.disabled)
    /\ last.op = "ignored" => (LegalOfType(last.before, last.type) = {} \/ last.disabled)

\* the handler of Fold ran while only check was listed and the controls were enabled:
\* nothing was submitted
C12_Witness ==
    /\ last.op = "ignored"
    /\ last.type = "fold"
    /\ ~last.disabled
    /\ Len(last.before.legalActions) = 1
    /\ LegalOfType(last.before, "check") # {}

-----------------------------------------------------------------------------
(* Properties of a new hand and of the event log *)

\* the last operation started a new hand
HandStarted == last.op = "next"

\* the stack a player brings to a new hand: createNextMockHand tops it up to 80
StackBrought(stack) == Max(80, stack)

\* the blind a player of the new hand owes: the button the small blind, the other the big
BlindOwed(player, state) == IF player.isButton THEN state.smallBlind ELSE state.bigBlind

\* C13: in the state a new hand starts with, the button's stack is the stack it brought
\* less the small blind, the other player's stack less the big blind, the pot is small
\* blind + big blind, and stacks + pot equals the sum of the two stacks brought
C13_BlindsPosted ==
    HandStarted =>
        LET human == StackBrought(last.before.players.human.stack)
            opponent == StackBrought(last.before.players.opponent.stack)
        IN /\ session.players.human.stack
                 = human - BlindOwed(session.players.human, session)
           /\ session.players.opponent.stack
                 = opponent - BlindOwed(session.players.opponent, session)
           /\ session.pot = session.smallBlind + session.bigBlind
           /\ ChipTotal(session) = human + opponent

\* the last event of the feed
LastEvent(state) == state.actionFeed[Len(state.actionFeed)]

\* C14: in every session state (the initial one, after every applied action, after every
\* new hand) the pot and the stacks recorded in the last event of the feed are the
\* state's pot and stacks
C14_LogAgreesWithChips ==
    /\ Len(session.actionFeed) > 0
    /\ LastEvent(session).pot = session.pot
    /\ LastEvent(session).stacks.human = session.players.human.stack
    /\ LastEvent(session).stacks.opponent = session.players.opponent.stack

IsPrefix(a, b) == Len(a) <= Len(b) /\ SubSeq(b, 1, Len(a)) = a

\* C15: after every applied action the feed of the resulting state begins with the whole
\* feed of the state before (nothing changed, removed or reordered), and the state object
\* that was passed in is as it was
C15_LogAppendOnly ==
    Applied =>
        /\ IsPrefix(last.before.actionFeed, session.actionFeed)
        /\ last.passed = last.before

\* in a later hand an action went to showdown: three events were appended
C15_Witness ==
    /\ AppliedInProgress
    /\ ParseInt(session.handId) > 1
    /\ Len(last.before.actionFeed) > 0
    /\ Len(session.actionFeed) = Len(last.before.actionFeed) + 3

\* C16: the summary stored after an applied action has winner = null exactly while the
\* hand is in progress, names the opponent once the log says the opponent won after a
\* fold, and has the hand's pot as finalPot
C16_SummaryNamesWinner ==
    AppliedInProgress =>
        LET summary == mockSummary(session)
        IN /\ (summary.winner = Null) <=> (session.status = "in_progress")
           /\ LastEvent(session).action = "Opponent wins after fold."
                  => summary.winner = "opponent"
           /\ summary.finalPot = session.pot
           /\ summary.handId = session.handId

\* C17: a hand that ends with a player's stack at 0 leaves the session in
\* session_complete, never hand_complete, and no hand is started from a state in which a
\* stack is 0 (a rebuy comes first)
C17_BustCompletesSession ==
    LET Busted(state) ==
            \/ state.players.human.stack = 0
            \/ state.players.opponent.stack = 0
    IN
    /\ (Applied /\ session.status # "in_progress" /\ Busted(session))
           => session.status = "session_complete"
    /\ HandStarted => ~Busted(last.before)

\* the operation of the request that the awaiting useSession call has in flight
RequestInFlight ==
    IF hookOp.wire = "ws" THEN calls[hookOp.call].op ELSE http.op

\* C18: while useSession.nextHand awaits a request in API mode, the closure's session is
\* the client's session, and the request in flight, over the socket or over HTTP, is a
\* rebuy if that session's status is session_complete and a next-hand request otherwise
C18_RebuyBeforeNextHand ==
    (mode = "api" /\ hookOp.op \notin {"none", "action"}) =>
        /\ hookOp.status = session.status
        /\ IF session.status = "session_complete"
           THEN RequestInFlight = "rebuy"
           ELSE RequestInFlight = "next_hand"

\* the socket turned the rebuy down and nextHand fell back to HTTP with a rebuy
C18_Witness ==
    /\ mode = "api"
    /\ hookOp.op = "rebuy"
    /\ hookOp.wire = "http"
    /\ hookOp.call > 0
    /\ session.status = "session_complete"
    /\ http.op = "rebuy"

\* C19: a next-hand request made while the hand is in progress leaves the session as it
\* was, and a new hand comes only out of a state whose status is hand_complete
C19_NextHandOnlyAfterComplete ==
    HandStarted =>
        /\ last.before.status = "in_progress" => session = last.before
        /\ session.handId # last.before.handId => last.before.status = "hand_complete"

\* the community cards on the table on a street
BoardSize(street) ==
    CASE street = "preflop" -> 0
      [] street = "flop" -> 3
      [] street = "turn" -> 4
      [] OTHER -> 5

\* C20: once both players have acted on a street and their commitments match, the hand
\* is on another street than before and the board holds that street's community cards
C20_ClosedRoundAdvances ==
    LET RoundClosed == AppliedInProgress /\ last.type # "fold" /\ streetLead = 0
    IN
    RoundClosed =>
        /\ session.street # last.before.street
        /\ Len(session.board) = BoardSize(session.street)

\* C21: an applied action stays in the hand it was applied to and never takes the street
\* back (so no sequence of applied actions within one hand does)
C21_StreetsMoveForward ==
    LET StreetRank(street) ==
            CASE street = "preflop" -> 0
              [] street = "flop" -> 1
              [] street = "turn" -> 2
              [] street = "river" -> 3
              [] street = "showdown" -> 4
    IN
    Applied =>
        /\ session.handId = last.before.handId
        /\ StreetRank(session.street) >= StreetRank(last.before.street)

\* in a hand that began preflop, an action took the street forward to the showdown
C21_Witness ==
    /\ AppliedInProgress
    /\ last.before.street = "preflop"
    /\ session.street = "showdown"

\* C22: a state whose status is hand_complete has no legal actions, and an action
\* applied to it returns a state equal to it
C22_CompleteIsTerminal ==
    /\ session.status = "hand_complete" => session.legalActions = <<>>
    /\ (Applied /\ last.before.status = "hand_complete") => session = last.before

\* a bet-like action with an amount was applied to a hand that was already over
C22_Witness ==
    /\ Applied
    /\ last.before.status = "hand_complete"
    /\ last.type \in {"bet", "raise", "all_in"}
    /\ last.amount # Undefined
    /\ last.before.players.human.stack > 0

\* C23: both stacks and the pot are non-negative integers in every reachable state,
\* whatever amount was submitted
C23_StacksNeverNegative ==
    /\ session.players.human.stack \in Nat
    /\ session.players.opponent.stack \in Nat
    /\ session.pot \in Nat

\* an action with a whole amount above the stack, or with a whole amount below zero, was
\* applied to a hand in progress
C23_Witness ==
    /\ AppliedInProgress
    /\ last.type \in {"call", "bet", "raise", "all_in"}
    /\ last.amount # Undefined
    /\ last.amount[1] % 2 = 0
    /\ \/ /\ last.amount[1] > Num(last.before.players.human.stack)
          /\ session.players.human.stack = 0
       \/ /\ last.amount[1] < 0
          /\ session.players.human.stack = last.before.players.human.stack

\* C24: in every reachable state exactly one of the two players has the button, and a
\* new hand gives it to the player who did not have it in the hand before
C24_ButtonAlternates ==
    /\ session.players.human.isButton # session.players.opponent.isButton
    /\ HandStarted =>
          /\ session.players.human.isButton = last.before.players.opponent.isButton
          /\ session.players.opponent.isButton = last.before.players.human.isButton

\* the third hand: the button went to the opponent and has come back to the human
C24_Witness ==
    /\ HandStarted
    /\ ParseInt(session.handId) = 3
    /\ session.players.human.isButton
    /\ ~last.before.players.human.isButton

-----------------------------------------------------------------------------
(* components/PlayerPanel, components/PixelCard and the two panels of the App *)

\* splitCard and the aria-label of a face: the rank and the suit in upper case, for the
\* hole cards the sessions here hold
CardLabel(card) ==
    CASE card = "Ah" -> "Card AH"
      [] card = "Jh" -> "Card JH"
      [] card = "Kd" -> "Card KD"
      [] card = "9c" -> "Card 9C"
      [] card = "9h" -> "Card 9H"
      [] card = "9d" -> "Card 9D"
      [] card = "As" -> "Card AS"
      [] card = "Qc" -> "Card QC"

\* PixelCard: the aria-label of what is drawn
PixelCard(card, hidden) == IF hidden THEN "Hidden card" ELSE CardLabel(card)

\* PlayerPanel: the card row and the footer
PlayerPanel(player, revealCards) ==
    [cards |-> << PixelCard(player.holeCards[1], ~revealCards),
                  PixelCard(player.holeCards[2], ~revealCards) >>,
     footer |-> IF player.cardsVisible \/ revealCards THEN "Cards shown" ELSE "Cards hidden"]

\* a variant of opponentVisible that always reveals
opponentVisible_Always(s) == TRUE

\* App: whether the opponent's panel reveals its cards
opponentVisible(s) ==
    s.players.opponent.cardsVisible \/ s.street = "showdown" \/ showNextHand(s)

\* App: the opponent's panel and the player's panel
OpponentPanel(s) == PlayerPanel(s.players.opponent, opponentVisible(s))

HumanPanel(s) == PlayerPanel(s.players.human, TRUE)

Faces(player) == << CardLabel(player.holeCards[1]), CardLabel(player.holeCards[2]) >>

Live(s) == s.status = "in_progress" /\ s.street # "showdown"

\* C25: while the hand is in progress and not at showdown the opponent's cardsVisible is
\* false, every event of the feed has holeCardVisibility.opponent = false and the App
\* draws both opponent cards hidden; a PlayerPanel draws the faces iff revealCards
C25_OpponentCardsHidden ==
    TableRendered(loading, session) =>
        /\ Live(session) =>
              /\ ~session.players.opponent.cardsVisible
              /\ \A i \in DOMAIN session.actionFeed :
                     ~session.actionFeed[i].holeCardVisibility.opponent
              /\ OpponentPanel(session).cards = <<"Hidden card", "Hidden card">>
        /\ \A reveal \in BOOLEAN :
              LET panel == PlayerPanel(session.players.opponent, reveal)
              IN /\ reveal <=> panel.cards = Faces(session.players.opponent)
                 /\ ~reveal <=> panel.cards = <<"Hidden card", "Hidden card">>
        /\ HumanPanel(session).cards = Faces(session.players.human)

\* mock mode, second hand or later: an action was applied through the controls, the hand
\* goes on and the opponent's cards are drawn hidden
C25_Witness ==
    /\ mode = "mock"
    /\ AppliedByControls
    /\ ParseInt(session.handId) > 1
    /\ Live(session)
    /\ Len(session.actionFeed) >= 3
    /\ OpponentPanel(session).cards = <<"Hidden card", "Hidden card">>

-----------------------------------------------------------------------------
(* Properties of the initial load *)

\* C26: a failed session creation or hand-list load, with the hook still mounted, leaves
\* mode = mock, the initial mock session and loading = false; mock mode always has a
\* session and is never loading; and unless the effect is cleaned up, loading becomes
\* false eventually
C26_BootFallsBackToMock ==
    /\ [][(mounted /\ loadPc \in {"create", "refresh"} /\ loadPc' = "done") =>
             /\ mode' = "mock"
             /\ session' = buildInitialMockState
             /\ ~loading']_vars
    /\ [](mode = "mock" => session # NoSession /\ ~loading)
    /\ <>(~loading \/ ~mounted)

\* the load failed and the page shows the initial mock session
C26_Witness ==
    /\ mounted
    /\ loadPc = "done"
    /\ mode = "mock"
    /\ session = buildInitialMockState
    /\ ~loading
    /\ error = <<"Backend not reachable. Running in local mock mode.">>

-----------------------------------------------------------------------------
(* Properties of the opponent policy service *)

\* C27: decide always returns a member of legalActions(handState) after at most
\* 1 + retries attempts and raises nothing to its caller, also when every external call
\* fails or no API key is configured
C27_FallbackGuarantee ==
    /\ policy.attempts <= 1 + policy.retries
    /\ policy.pc = "returned" =>
          /\ policy.action \in legalActionsOf(policy.handState)
          /\ policy.raised = "none"

\* with one retry configured both attempts failed, and decide returned the fallback's
\* action for a hand state in which a call is not legal
C27_Witness ==
    /\ policy.pc = "returned"
    /\ policy.retries = 1
    /\ policy.attempts = 2
    /\ policy.via = "fallback"
    /\ policy.handState = "checked_to"
    /\ policy.action = "check"

-----------------------------------------------------------------------------
(* Liveness of the socket's requests *)

\* C29: every request sent on the open socket is settled eventually (by its response, an
\* error response, its timeout with status 504, or the closing of the socket), and a
\* settled request is not in the pending map
C29_RequestsSettle ==
    /\ \A k \in 1..MaxCalls :
          (k \in DOMAIN calls /\ calls[k].stage = "sent" /\ calls[k].outcome = "pending")
             ~> (k \in DOMAIN calls /\ calls[k].outcome # "pending")
    /\ [](\A k \in DOMAIN calls : calls[k].outcome # "pending" => k \notin PendingCalls)

\* a request got no answer, its timeout fired and rejected it with 504, and its entry is
\* gone from the pending map
C29_Witness ==
    \E k \in DOMAIN calls :
        /\ calls[k].stage = "sent"
        /\ calls[k].outcome = "rejected"
        /\ calls[k].status = 504
        /\ k \notin PendingCalls
        /\ k \notin timers

-----------------------------------------------------------------------------
(* Properties of the socket's lifecycle in useSession *)

\* C30: an open socket of the hook belongs to the API session in state, and once the
\* effect's cleanup has run no socket of the hook is open
C30_SocketFollowsSession ==
    /\ isConnected(sock) => mode = "api" /\ session # NoSession
    /\ ~mounted => ~isConnected(sock)

-----------------------------------------------------------------------------
(* Properties of the hook's API calls *)

\* a call of submitAction or nextHand in API mode is awaiting a request
Awaiting == hookOp.op # "none"

\* C31: one call of submitAction or nextHand sends at most one socket request and at
\* most one HTTP request; it has sent the HTTP request iff the socket was not connected
\* or the socket request was rejected; and while the socket request is unsettled no HTTP
\* request of the call exists
C31_TransportFallbackOrder ==
    LET SocketRejected == hookOp.sockets = 1 /\ calls[hookOp.call].outcome = "rejected"
    IN
    Awaiting =>
        /\ hookOp.sockets <= 1
        /\ hookOp.https <= 1
        /\ hookOp.sockets = 1 <=> hookOp.connected
        /\ hookOp.https = 1 <=> (~hookOp.connected \/ SocketRejected)
        /\ hookOp.https = 1 <=> http.op # "none"
        /\ (hookOp.sockets = 1 /\ calls[hookOp.call].outcome = "pending") => http.op = "none"
        /\ hookOp.sockets = 1 => calls[hookOp.call].outcome # "resolved"

\* the socket request timed out and the same operation is now in flight over HTTP
C31_Witness ==
    /\ Awaiting
    /\ hookOp.connected
    /\ hookOp.sockets = 1
    /\ hookOp.https = 1
    /\ calls[hookOp.call].outcome = "rejected"
    /\ http.op = hookOp.op
    /\ http.u = hookOp.u

-----------------------------------------------------------------------------
(* Properties of send() *)

\* send() is called in this step
SendCalled == Len(calls') = Len(calls) + 1

\* this step transmits nothing, starts no timer and adds nothing to the pending map
NothingSent ==
    /\ c2s' = c2s
    /\ timers' = timers
    /\ sock'.pending = sock.pending

\* the call made in this step is rejected with ApiError(text, 0)
NewCallRejected(text) ==
    LET c == calls'[Len(calls')]
    IN /\ c.outcome = "rejected"
       /\ c.status = 0
       /\ c.message = Some(<<text>>)
       /\ c.requestId = Undefined

\* C32 as stated: a send() called while the socket is not OPEN is rejected with the
\* not-connected ApiError, and nothing is transmitted, timed or put into the pending map
C32_NoSendUnlessOpen ==
    [][(SendCalled /\ ~isConnected(sock)) =>
           NewCallRejected("WebSocket not connected.") /\ NothingSent]_vars

\* C32 amended: a send() called while the socket is not OPEN and no longer connecting is
\* rejected with an ApiError of status 0 (not connected; connection failed if the socket
\* never opened), and nothing is transmitted, timed or put into the pending map; a send()
\* called while the socket is connecting waits for the connection, and nothing is
\* transmitted, timed or put into the pending map before the socket is OPEN
C32_NoSendUnlessOpen_Amended ==
    /\ [][(SendCalled /\ ~isConnected(sock) /\ sock.ready # "waiting") =>
             /\ NewCallRejected(IF sock.ready = "rejected"
                                THEN "WebSocket connection failed."
                                ELSE "WebSocket not connected.")
             /\ NothingSent]_vars
    /\ [][(SendCalled /\ sock.ready = "waiting") =>
             /\ calls'[Len(calls')].stage = "awaiting_ready"
             /\ calls'[Len(calls')].outcome = "pending"
             /\ NothingSent]_vars
    /\ [][~isConnected(sock') => c2s' \subseteq c2s /\ timers' \subseteq timers
                                  /\ sock'.pending \subseteq sock.pending]_vars

\* send() was called on a socket that had been open and is no longer: the call is
\* rejected as not connected and has no request id
C32_Witness ==
    /\ sock.readyState \in {"closing", "closed"}
    /\ sock.ready = "resolved"
    /\ \E k \in DOMAIN calls :
          /\ calls[k].stage = "failed"
          /\ calls[k].outcome = "rejected"
          /\ calls[k].message = Some(<<"WebSocket not connected.">>)
          /\ calls[k].requestId = Undefined

\* C33: no two requests sent on the socket carry the same requestId, and the keys of the
\* pending map are exactly the ids of the sent requests that are not settled, one entry
\* per key
C33_UniqueRequestIds ==
    LET SentCalls == {k \in DOMAIN calls : calls[k].requestId # Undefined}
    IN
    /\ \A k1, k2 \in SentCalls :
          calls[k1].requestId = calls[k2].requestId => k1 = k2
    /\ {e.requestId : e \in sock.pending}
          = {calls[k].requestId[1] : k \in {j \in SentCalls : calls[j].outcome = "pending"}}
    /\ \A e1, e2 \in sock.pending : e1.requestId = e2.requestId => e1 = e2

\* two requests went out in the same millisecond and both are in the pending map, under
\* different ids
C33_Witness ==
    LET SentCalls == {k \in DOMAIN calls : calls[k].requestId # Undefined}
    IN
    \E k1, k2 \in SentCalls :
        /\ k1 # k2
        /\ calls[k1].requestId[1][1] = calls[k2].requestId[1][1]
        /\ calls[k1].requestId # calls[k2].requestId
        /\ {k1, k2} \subseteq PendingCalls
        /\ Cardinality(sock.pending) = 2

\* C34: on a mounted page submitting is true exactly while a call of submitAction or
\* nextHand is awaiting a request, and such a call awaits a request that has not settled:
\* once the requests of an operation have settled, submitting is false again
C34_SubmittingReleased ==
    /\ mounted => (submitting <=> Awaiting)
    /\ Awaiting => Outstanding = 1
    /\ Outstanding = 0 => (~Awaiting /\ (mounted => ~submitting))

\* a next-hand request failed on the socket and over HTTP; the flag is released
C34_Witness ==
    /\ mounted
    /\ mode = "api"
    /\ ~submitting
    /\ ~Awaiting
    /\ Outstanding = 0
    /\ error = <<"Could not start next hand.">>
    /\ Len(calls) > 0
    /\ calls[Len(calls)].outcome = "rejected"

C36_ModeChangesOnce ==
    /\ [][mode' # mode =>
            /\ mode = "api"
            /\ mode' = "mock"
            /\ loadPc \in {"create", "refresh"}
            /\ loadPc' = "done"]_vars
    /\ [][(loadPc \in {"connect", "done"}) => mode' = mode]_vars
    /\ [][mode = "mock" =>
            /\ http = NoHttp
            /\ <<http, c2s, calls, timers>>' = <<http, c2s, calls, timers>>]_vars

\* mock mode, reached from a failed load, after two operations of the local engine
C36_Witness ==
    /\ mode = "mock"
    /\ loadPc = "done"
    /\ nApplied >= 2
    /\ http = NoHttp
    /\ Len(calls) = 0
    /\ c2s = {}

\* C37: an action applied to a hand in progress appends the human's event and then either
\* the fold's system event alone (for a fold) or one opponent event and at most one
\* showdown system event; an action applied to a hand that is over appends nothing; and
\* afterwards the hand is complete or waits for the human
C37_OneReplyPerAction ==
    LET WaitingForHuman(state) ==
            state.status = "in_progress" /\ Len(state.legalActions) > 0
        Appended ==
            SubSeq(session.actionFeed, Len(last.before.actionFeed) + 1, Len(session.actionFeed))
    IN
    /\ AppliedInProgress =>
          /\ IsPrefix(last.before.actionFeed, session.actionFeed)
          /\ Len(Appended) \in {2, 3}
          /\ Appended[1].actor = "human"
          /\ Appended[1].action = last.type
          /\ IF last.type = "fold"
             THEN /\ Len(Appended) = 2
                  /\ Appended[2].actor = "system"
                  /\ Appended[2].action = "Opponent wins after fold."
             ELSE /\ Appended[2].actor = "opponent"
                  /\ Len(Appended) = 3 =>
                        /\ Appended[3].actor = "system"
                        /\ Appended[3].street = "showdown"
          /\ \A i \in 1..Len(Appended) :
                Appended[i].actor = "opponent" => (i = 2 /\ last.type # "fold")
          /\ session.status = "hand_complete" \/ WaitingForHuman(session)
    /\ (Applied /\ last.before.status # "in_progress") =>
          session.actionFeed = last.before.actionFeed

\* a call grew the pot past 40, the opponent answered all-in and the showdown followed
C37_Witness ==
    LET Appended ==
            SubSeq(session.actionFeed, Len(last.before.actionFeed) + 1, Len(session.actionFeed))
    IN
    /\ AppliedInProgress
    /\ last.type = "call"
    /\ Len(Appended) = 3
    /\ Appended[2].actor = "opponent"
    /\ Appended[2].action = "all_in"
    /\ Appended[3].action = "Showdown reached."
    /\ session.status = "hand_complete"

\* C38: in every state the board holds as many cards as the street deals (none on
\* preflop, 3 on flop, 4 on turn, 5 on river and showdown), and the board after an applied
\* action begins with the board before it
C38_BoardMatchesStreet ==
    /\ Len(session.board) = BoardSize(session.street)
    /\ Applied =>
          /\ session.handId = last.before.handId
          /\ IsPrefix(last.before.board, session.board)

\* an action on the flop went to showdown: the turn and river cards were added to the flop
C38_Witness ==
    /\ AppliedInProgress
    /\ last.before.street = "flop"
    /\ Len(last.before.board) = 3
    /\ session.street = "showdown"
    /\ Len(session.board) = 5
    /\ SubSeq(session.board, 1, 3) = last.before.board

\* C39: in mock mode the hand summaries and the stored replays hold no hand twice, the
\* first entry of each is the current hand, and the replay stored for the current hand
\* has the session's feed as its events
C39_OneEntryPerHand ==
    LET UniqueHands(list) ==
            \A i, j \in DOMAIN list : list[i].handId = list[j].handId => i = j
    IN
    mode = "mock" =>
        /\ UniqueHands(handSummaries)
        /\ UniqueHands(replays)
        /\ Len(handSummaries) > 0
        /\ Len(replays) > 0
        /\ handSummaries[1].handId = session.handId
        /\ replays[1].handId = session.handId
        /\ findReplay(replays, session.handId).events = session.actionFeed

\* mock mode in the second hand after an action in it: three hands are stored, and the
\* current one has been replaced rather than added
C39_Witness ==
    /\ mode = "mock"
    /\ AppliedInProgress
    /\ ParseInt(session.handId) = 2
    /\ Len(replays) = 3
    /\ Len(handSummaries) = 3
    /\ replays[1].seed = "mock-live-seed"
    /\ Len(replays[1].events) >= 3

=============================================================================
